---- MODULE Spec2Model ----
(***************************************************************************)
(* Model of stfo-colbert.                                                  *)
(*                                                                         *)
(* indexer.py: the SQLite-backed Text Store (CollectionDB), its batching   *)
(* writer (CollectionWriter) and the streaming ingestion pipeline          *)
(* (build_index).                                                          *)
(*   SpecDB     : a CollectionDB driven directly through its methods.      *)
(*   Spec       : one build_index run, optionally with a CollectionWriter  *)
(*                used as a context manager around it.                     *)
(*   SpecWriter : a CollectionWriter driven directly: add_documents and    *)
(*                finalize calls in any order.                             *)
(* dataset.py: the document sources.                                       *)
(*   SpecSplit  : a delimited flat file streamed through the splitter.     *)
(*   SpecCut    : the splitter over a text cut into buffers of any sizes.  *)
(*   SpecDir    : prepare_from_directory, its cache artifact, and the      *)
(*                documents streamed from it, over two runs.               *)
(* server.py: the search service.                                          *)
(*   SpecTopk   : _results_to_topk applied to one result list.             *)
(*   SpecShape  : _results_to_topk over the shapes a result arrives in.    *)
(*   SpecServer : the /search handler over the lru_cache of cached_query.  *)
(*   SpecConc   : /search requests that overlap on a pool of threads.      *)
(***************************************************************************)
EXTENDS Integers, Sequences, FiniteSets, TLC

\* ---------------------------------------------------------------- bounds
MaxDocs  == 4   \* longest source sequence of chunks
MaxAcc   == 3   \* largest encoding_chunk_size
MaxBatch == 3   \* largest CollectionWriter batch_size
MaxId    == 1   \* SpecDB: document ids are str(0) .. str(MaxId)

Texts == {"a", "b"}          \* chunk texts
OldText == "old"             \* text of entries left by an earlier generation
PyNone == "None"             \* Python's None (get's default when omitted)
KeyError == "KeyError"       \* the outcome "raises KeyError(key)"
IndexPath == "index_path"    \* the index location given to build_index

\* ------------------------------------------------------------- str(int)
Digits == <<"0", "1", "2", "3", "4", "5", "6", "7", "8", "9">>

RECURSIVE Str(_)
\* str(n) for a non-negative int: its decimal digits, most significant first
Str(n) == IF n < 10 THEN <<Digits[n + 1]>>
          ELSE Str(n \div 10) \o <<Digits[(n % 10) + 1]>>

\* ------------------------------------------------ the collection table
\* A table is the set of rows <<doc_id, text>> of `collection`.

\* rows a SELECT ... WHERE doc_id = ? returns
RowsOf(tbl, key) == {r \in tbl : r[1] = key}

HasKey(tbl, key) == RowsOf(tbl, key) # {}

\* CollectionDB.__getitem__: the text of the row, or KeyError
GetItem(tbl, key) ==
    IF RowsOf(tbl, key) = {} THEN KeyError
    ELSE (CHOOSE r \in RowsOf(tbl, key) : TRUE)[2]

\* get that answers None for an absent key whatever default was given
GetIgnoringDefault(tbl, key, default) ==
    IF GetItem(tbl, key) = KeyError THEN PyNone ELSE GetItem(tbl, key)

\* CollectionDB.get(key, default)
Get(tbl, key, default) ==
    IF GetItem(tbl, key) = KeyError THEN default ELSE GetItem(tbl, key)

\* Mapping.__contains__: key in db
Contains(tbl, key) == GetItem(tbl, key) # KeyError

\* CollectionDB.__len__: SELECT COUNT(*)
Count(tbl) == Cardinality(tbl)

\* CollectionDB.__iter__: how many times iteration yields `key`
IterCount(tbl, key) == Cardinality(RowsOf(tbl, key))

\* a plain INSERT that keeps an existing row (INSERT OR IGNORE)
InsertOrIgnore(tbl, key, text) ==
    IF HasKey(tbl, key) THEN tbl ELSE tbl \cup {<<key, text>>}

\* INSERT OR REPLACE INTO collection (doc_id, text) VALUES (?, ?):
\* the row in conflict on the primary key is deleted, the new row inserted
InsertOrReplace(tbl, key, text) ==
    {r \in tbl : r[1] # key} \cup {<<key, text>>}

RECURSIVE ExecuteMany(_, _, _)
\* executemany over `items`, of which the first n statements execute (n <
\* Len(items): statement n+1 raises and the earlier rows stay in the open
\* transaction, nothing is rolled back)
ExecuteMany(tbl, items, n) ==
    IF n = 0 THEN tbl
    ELSE InsertOrReplace(ExecuteMany(tbl, items, n - 1), items[n][1], items[n][2])

\* ---------------------------------------------------------------- state
VARIABLES
    \* CollectionDB
    conn,            \* the table as this connection sees it (with uncommitted rows)
    disk,            \* the committed table: what another reader, or a reopen, sees
    dbOpen,          \* the connection is open
    \* history of the direct CollectionDB calls (SpecDB)
    written,         \* id -> text most recently written on this connection, or PyNone
    lastOp,          \* the last call made on the CollectionDB
    lastBatch,       \* items of the last add_batch when no write followed it, else <<>>
    preConn,         \* conn as it was when that add_batch was called
    batchCommitted,  \* a commit followed that add_batch
    \* CollectionWriter
    hasWriter,       \* collection_writer is not None
    batch_size,
    batch,           \* self.batch: pending <<doc_id, text>> pairs
    total_saved,
    \* build_index
    src,             \* the chunks the documents iterator yields
    encoding_chunk_size,
    pos,             \* chunks pulled so far (the next doc_idx of enumerate)
    doc_chunk,
    id_chunk,
    total_processed,
    first_chunk,
    chunk_number,
    embeddings,
    pc,              \* position in build_index / the with block
    final,           \* the window in flight is the final (post-loop) one
    off,             \* add_documents: offset of the next document
    result,          \* "running", "returned" or "raised"
    err,             \* the exception build_index raised, or NoErr
    warned,          \* the count-mismatch warning was logged
    \* the collaborators
    index,           \* the index engine's entries <<id, embedding>>
    encCalls,        \* encoder invocations: [n |-> chunk_number, docs |-> texts]
    idxCalls,        \* index.add_documents invocations: [n, ids, ok]
    wrCalls,         \* collection_writer.add_documents invocations: [docs, start]
    preexisting      \* collection.db held an earlier generation at the start

dbVars == <<conn, disk, dbOpen>>
dbHist == <<written, lastOp, lastBatch, preConn, batchCommitted>>
writerVars == <<hasWriter, batch_size, batch, total_saved>>
buildVars == <<src, encoding_chunk_size, pos, doc_chunk, id_chunk, total_processed,
               first_chunk, chunk_number, embeddings, pc, final, off, result, err,
               warned>>
extVars == <<index, encCalls, idxCalls, wrCalls, preexisting>>

VARIABLES
    \* the delimited flat file and _stream_documents_from_delimited_text
    fileDocs,        \* the segments that were joined into the file
    fileText,        \* the characters of the file
    chunk_size,      \* characters one f.read returns
    fpos,            \* characters read so far
    buffer,          \* the splitter's residual buffer
    yielded          \* the documents yielded so far, in order

VARIABLES
    \* prepare_from_directory
    dirFiles,        \* the files of the directory, in sorted path order
    cacheExists,     \* .stfo_colbert_cache.txt.xz exists
    cacheText,       \* the text the cache artifact holds
    cacheCorrupt,    \* decompressing the artifact raises
    scanIdx,         \* files the scan loop has gone through
    doc_count,
    scans,           \* times the directory was enumerated (rglob)
    run,             \* runs of prepare_from_directory started
    firstYield,      \* the documents the first run streamed
    cacheDocs        \* the documents an artifact found at the start was joined from

VARIABLES
    \* _results_to_topk
    results,         \* the hits the index engine returned: <<id, score>> pairs
    collection,      \* <<tbl>>: the Text Store given to the server; <<>>: None
    topk,            \* the list _results_to_topk returned
    cause,           \* the exception a call raised, or PyNone
    shape            \* <<kind, nested>>: the form the engine's hits arrive in

VARIABLES
    \* create_app: cached_query and the /search handler
    qcache,          \* lru_cache entries [q, k, resp], least recently used first
    answered,        \* (q, k) -> <<resp>>: the last response served for it; <<>>: none
    recency,         \* the keys served with a response, least recently served first
    last,            \* the last request and its outcome
    reqs,            \* requests served so far
    encN,            \* (q, k) -> times encode_query was invoked for it
    idxN,            \* (q, k) -> times retrieve_topk was invoked for it
    failures,        \* requests answered with an error
    inflight         \* thread -> the call of cached_query it has not stored yet

splitVars == <<fileDocs, fileText, chunk_size, fpos, buffer, yielded>>
serverVars == <<qcache, answered, recency, last, reqs, encN, idxN, failures, inflight>>
topkVars == <<results, collection, topk, cause, shape>>
dirVars == <<dirFiles, cacheExists, cacheText, cacheCorrupt, scanIdx, doc_count,
             scans, run, firstYield, cacheDocs>>
otherVars == <<splitVars, dirVars, topkVars, serverVars>>
vars == <<dbVars, dbHist, writerVars, buildVars, extVars, otherVars>>

\* no file is being streamed
SplitIdle ==
    /\ fileDocs = <<>> /\ fileText = <<>> /\ chunk_size = 1
    /\ fpos = 0 /\ buffer = <<>> /\ yielded = <<>>

\* no directory is being prepared
DirIdle ==
    /\ dirFiles = <<>> /\ cacheExists = FALSE /\ cacheText = <<>>
    /\ cacheCorrupt = FALSE /\ scanIdx = 0 /\ doc_count = 0
    /\ scans = 0 /\ run = 0 /\ firstYield = <<>> /\ cacheDocs = <<>>

\* no search is being served
TopkIdle ==
    /\ results = <<>> /\ collection = <<>> /\ topk = <<>> /\ cause = PyNone
    /\ shape = <<>>

\* no server was created
ServerIdle ==
    /\ qcache = <<>> /\ answered = <<>> /\ recency = <<>> /\ last = <<>> /\ reqs = 0
    /\ encN = <<>> /\ idxN = <<>> /\ failures = 0 /\ inflight = <<>>

OtherIdle == SplitIdle /\ DirIdle /\ TopkIdle /\ ServerIdle

\* a call on the CollectionDB, as the history records it
Op(name, id, text, items, n) ==
    [op |-> name, id |-> id, text |-> text, items |-> items, n |-> n]

NoOp == Op("none", <<>>, "", <<>>, 0)

\* An exception leaving build_index: its kind, the numbers its message
\* interpolates and the path its message names.
NoErr == [kind |-> "none", nums |-> {}, path |-> ""]

\* ------------------------------------------------------ CollectionDB ops
DbIds == {Str(n) : n \in 0..MaxId}

\* the batches add_batch is called with: consecutive ids, any texts
BatchesFrom(first, len) ==
    {b \in [1..len -> DbIds \X Texts] :
        \A k \in 1..len : b[k][1] = Str(first + k - 1)}

Batches == UNION {BatchesFrom(first, len) :
                    first \in 0..MaxId, len \in 1..(MaxId + 1)}

\* what a direct CollectionDB call leaves alone
DbFrame == UNCHANGED <<writerVars, buildVars, extVars, otherVars>>

\* CollectionDB.add(doc_id, text)
DbAdd(id, text) ==
    /\ DbFrame
    /\ dbOpen
    /\ conn' = InsertOrReplace(conn, id, text)
    /\ written' = [written EXCEPT ![id] = text]
    /\ lastOp' = Op("add", id, text, <<>>, 0)
    /\ lastBatch' = <<>>
    /\ preConn' = {}
    /\ batchCommitted' = FALSE
    /\ UNCHANGED <<disk, dbOpen>>

\* CollectionDB.add_batch(items); n = Len(items) when it returns, n <
\* Len(items) when statement n+1 raised (for example NOT NULL on a None text)
DbAddBatch(items, n) ==
    /\ DbFrame
    /\ dbOpen
    /\ conn' = ExecuteMany(conn, items, n)
    /\ written' = [i \in DbIds |->
                     IF \E k \in 1..n : items[k][1] = i
                     THEN items[CHOOSE k \in 1..n : items[k][1] = i][2]
                     ELSE written[i]]
    /\ lastOp' = Op("add_batch", <<>>, "", items, n)
    /\ lastBatch' = items
    /\ preConn' = conn
    /\ batchCommitted' = FALSE
    /\ UNCHANGED <<disk, dbOpen>>

\* CollectionDB.commit()
DbCommit ==
    /\ DbFrame
    /\ dbOpen
    /\ disk' = conn
    /\ batchCommitted' = (lastBatch # <<>>)
    /\ lastOp' = Op("commit", <<>>, "", <<>>, 0)
    /\ UNCHANGED <<conn, dbOpen, written, lastBatch, preConn>>

\* CollectionDB.__exit__(exc_type, ...): commit unless an exception is
\* leaving the with block, then close
DbExit(exc) ==
    /\ DbFrame
    /\ dbOpen
    /\ disk' = IF exc THEN disk ELSE conn
    /\ batchCommitted' = IF exc THEN batchCommitted ELSE (lastBatch # <<>>)
    /\ conn' = disk'
    /\ dbOpen' = FALSE
    /\ lastOp' = Op(IF exc THEN "exit_exc" ELSE "exit", <<>>, "", <<>>, 0)
    /\ UNCHANGED <<written, lastBatch, preConn>>

\* an open that recreates the table (DROP TABLE, then CREATE TABLE)
DbReopenFresh ==
    /\ DbFrame
    /\ ~dbOpen
    /\ dbOpen' = TRUE
    /\ conn' = {}
    /\ disk' = {}
    /\ written' = [i \in DbIds |-> PyNone]
    /\ lastOp' = Op("open", <<>>, "", <<>>, 0)
    /\ UNCHANGED <<lastBatch, preConn, batchCommitted>>

\* CollectionDB.__init__ on the same file: connect, CREATE TABLE IF NOT EXISTS
DbReopen ==
    /\ DbFrame
    /\ ~dbOpen
    /\ dbOpen' = TRUE
    /\ conn' = disk
    /\ written' = [i \in DbIds |-> Get(disk, i, PyNone)]
    /\ lastOp' = Op("open", <<>>, "", <<>>, 0)
    /\ UNCHANGED <<disk, lastBatch, preConn, batchCommitted>>

InitDB ==
    /\ conn = {} /\ disk = {} /\ dbOpen = TRUE
    /\ written = [i \in DbIds |-> PyNone]
    /\ lastOp = NoOp /\ lastBatch = <<>> /\ preConn = {} /\ batchCommitted = FALSE
    /\ hasWriter = FALSE /\ batch_size = 1 /\ batch = <<>> /\ total_saved = 0
    /\ src = <<>> /\ encoding_chunk_size = 1 /\ pos = 0
    /\ doc_chunk = <<>> /\ id_chunk = <<>> /\ total_processed = 0
    /\ first_chunk = TRUE /\ chunk_number = 0 /\ embeddings = <<>>
    /\ pc = "db" /\ final = FALSE /\ off = 0 /\ result = "running"
    /\ err = NoErr /\ warned = FALSE
    /\ index = <<>> /\ encCalls = <<>> /\ idxCalls = <<>> /\ wrCalls = <<>>
    /\ preexisting = FALSE
    /\ OtherIdle

NextDB ==
    \/ \E id \in DbIds, text \in Texts : DbAdd(id, text)
    \/ \E items \in Batches : \E n \in 0..Len(items) : DbAddBatch(items, n)
    \/ DbCommit
    \/ \E exc \in BOOLEAN : DbExit(exc)
    \/ DbReopen

SpecDB == InitDB /\ [][NextDB]_vars

\* ------------------------------------------------------------ the encoder
\* model.encode is opaque: one embedding per text, determined by the text
Embed(text) == <<"emb", text>>

\* model.encode(doc_chunk, ...): one vector per chunk, in order
Encode(docs) == [k \in 1..Len(docs) |-> Embed(docs[k])]

\* ------------------------------------------------------------ build_index
SeqsUpTo(S, n) == UNION {[1..k -> S] : k \in 0..n}

\* what collection.db holds when an earlier, longer run wrote it
StaleStore == {<<Str(i), OldText>> : i \in 0..MaxDocs}

\* the message numbering windows from 0
EncodeErrorZeroBased(n) == [kind |-> "encode", nums |-> {n - 1}, path |-> IndexPath]

\* RuntimeError(f"Encoding failed at [final ]chunk {chunk_number}. Index may
\* be incomplete at {index_path}")
EncodeError(n) == [kind |-> "encode", nums |-> {n}, path |-> IndexPath]

\* RuntimeError(f"Failed to add [final ]documents to index at chunk
\* {chunk_number}. Index may be incomplete at {index_path}")
IndexError(n) == [kind |-> "index", nums |-> {n}, path |-> IndexPath]

\* an exception of the documents iterator or of the Text Store, re-raised as is
SourceError == [kind |-> "source", nums |-> {}, path |-> ""]
StorageError == [kind |-> "storage", nums |-> {}, path |-> ""]

\* the start index taken after the window was counted, without the subtraction
ChunkStartIdxNoSub(total, docs) == total

\* chunk_start_idx = total_processed - len(doc_chunk)
ChunkStartIdx(total, docs) == total - Len(docs)

\* build_index leaves the CollectionDB call history alone
BuildFrame == UNCHANGED <<dbHist, hasWriter, batch_size, src, encoding_chunk_size,
                          preexisting, otherVars>>

\* a loop that sends a window to the encoder only when it is over the size
PullOverfull ==
    /\ BuildFrame
    /\ pc = "pull" /\ pos < Len(src)
    /\ doc_chunk' = Append(doc_chunk, src[pos + 1])
    /\ id_chunk' = Append(id_chunk, Str(pos))
    /\ pos' = pos + 1
    /\ IF Len(doc_chunk') > encoding_chunk_size
       THEN /\ chunk_number' = chunk_number + 1
            /\ pc' = "encode"
       ELSE /\ pc' = "pull"
            /\ UNCHANGED chunk_number
    /\ UNCHANGED <<dbVars, batch, total_saved, total_processed, first_chunk,
                   embeddings, final, off, result, err, warned, index, encCalls,
                   idxCalls, wrCalls>>

\* for doc_idx, doc in enumerate(documents): append; a full window goes on
\* to the encoder
Pull ==
    /\ BuildFrame
    /\ pc = "pull" /\ pos < Len(src)
    /\ doc_chunk' = Append(doc_chunk, src[pos + 1])
    /\ id_chunk' = Append(id_chunk, Str(pos))
    /\ pos' = pos + 1
    /\ IF Len(doc_chunk') >= encoding_chunk_size
       THEN /\ chunk_number' = chunk_number + 1
            /\ pc' = "encode"
       ELSE /\ pc' = "pull"
            /\ UNCHANGED chunk_number
    /\ UNCHANGED <<dbVars, batch, total_saved, total_processed, first_chunk,
                   embeddings, final, off, result, err, warned, index, encCalls,
                   idxCalls, wrCalls>>

\* the documents iterator raises: except Exception logs and re-raises
SourceRaise ==
    /\ BuildFrame
    /\ pc = "pull"
    /\ pc' = "failed" /\ result' = "raised" /\ err' = SourceError
    /\ UNCHANGED <<dbVars, batch, total_saved, pos, doc_chunk, id_chunk,
                   total_processed, first_chunk, chunk_number, embeddings, final,
                   off, warned, index, encCalls, idxCalls, wrCalls>>

\* the iterator is exhausted: if doc_chunk: the final window, else the end
Exhausted ==
    /\ BuildFrame
    /\ pc = "pull" /\ pos = Len(src)
    /\ IF doc_chunk # <<>>
       THEN /\ chunk_number' = chunk_number + 1
            /\ final' = TRUE
            /\ pc' = "encode"
       ELSE /\ pc' = "validate"
            /\ UNCHANGED <<chunk_number, final>>
    /\ UNCHANGED <<dbVars, batch, total_saved, pos, doc_chunk, id_chunk,
                   total_processed, first_chunk, embeddings, off, result, err,
                   warned, index, encCalls, idxCalls, wrCalls>>

\* embeddings = model.encode(doc_chunk, ...)
EncodeOk ==
    /\ BuildFrame
    /\ pc = "encode"
    /\ embeddings' = Encode(doc_chunk)
    /\ encCalls' = Append(encCalls, [n |-> chunk_number, docs |-> doc_chunk])
    /\ pc' = "commit"
    /\ UNCHANGED <<dbVars, batch, total_saved, pos, doc_chunk, id_chunk,
                   total_processed, first_chunk, chunk_number, final, off, result,
                   err, warned, index, idxCalls, wrCalls>>

\* model.encode raises: RuntimeError(...) from e
EncodeRaise ==
    /\ BuildFrame
    /\ pc = "encode"
    /\ encCalls' = Append(encCalls, [n |-> chunk_number, docs |-> doc_chunk])
    /\ pc' = "failed" /\ result' = "raised" /\ err' = EncodeError(chunk_number)
    /\ UNCHANGED <<dbVars, batch, total_saved, pos, doc_chunk, id_chunk,
                   total_processed, first_chunk, chunk_number, embeddings, final,
                   off, warned, index, idxCalls, wrCalls>>

\* a commit step that hands the window to the writer without adding it to
\* the index
IndexAddOkStoreOnly ==
    /\ BuildFrame
    /\ pc = "commit"
    /\ first_chunk' = IF final THEN first_chunk ELSE FALSE
    /\ idxCalls' = Append(idxCalls, [n |-> chunk_number, ids |-> id_chunk, ok |-> TRUE])
    /\ total_processed' = total_processed + Len(doc_chunk)
    /\ IF hasWriter
       THEN /\ wrCalls' = Append(wrCalls,
                            [docs |-> doc_chunk,
                             start |-> ChunkStartIdx(total_processed', doc_chunk)])
            /\ pc' = "store"
            /\ UNCHANGED <<doc_chunk, id_chunk, index>>
       ELSE /\ UNCHANGED wrCalls
            /\ index' = index \o [k \in 1..Len(id_chunk) |-> <<id_chunk[k], embeddings[k]>>]
            /\ IF final
               THEN pc' = "validate" /\ UNCHANGED <<doc_chunk, id_chunk>>
               ELSE pc' = "pull" /\ doc_chunk' = <<>> /\ id_chunk' = <<>>
    /\ UNCHANGED <<dbVars, batch, total_saved, pos, chunk_number, embeddings, final,
                   off, result, err, warned, encCalls>>

\* index.add_documents(documents_ids=id_chunk, documents_embeddings=embeddings),
\* total_processed += len(doc_chunk), then the hand-off to the writer
IndexAddOk ==
    /\ BuildFrame
    /\ pc = "commit"
    /\ first_chunk' = IF final THEN first_chunk ELSE FALSE
    /\ index' = index \o [k \in 1..Len(id_chunk) |-> <<id_chunk[k], embeddings[k]>>]
    /\ idxCalls' = Append(idxCalls, [n |-> chunk_number, ids |-> id_chunk, ok |-> TRUE])
    /\ total_processed' = total_processed + Len(doc_chunk)
    /\ IF hasWriter
       THEN /\ wrCalls' = Append(wrCalls,
                            [docs |-> doc_chunk,
                             start |-> ChunkStartIdx(total_processed', doc_chunk)])
            /\ pc' = "store"
            /\ UNCHANGED <<doc_chunk, id_chunk>>
       ELSE /\ UNCHANGED wrCalls
            /\ IF final
               THEN pc' = "validate" /\ UNCHANGED <<doc_chunk, id_chunk>>
               ELSE pc' = "pull" /\ doc_chunk' = <<>> /\ id_chunk' = <<>>
    /\ UNCHANGED <<dbVars, batch, total_saved, pos, chunk_number, embeddings, final,
                   off, result, err, warned, encCalls>>

\* a failure handler that deletes the partial index before raising
IndexAddRaiseCleanup ==
    /\ BuildFrame
    /\ pc = "commit"
    /\ first_chunk' = IF final THEN first_chunk ELSE FALSE
    /\ idxCalls' = Append(idxCalls, [n |-> chunk_number, ids |-> id_chunk, ok |-> FALSE])
    /\ index' = <<>>
    /\ pc' = "failed" /\ result' = "raised" /\ err' = IndexError(chunk_number)
    /\ UNCHANGED <<dbVars, batch, total_saved, pos, doc_chunk, id_chunk,
                   total_processed, chunk_number, embeddings, final, off, warned,
                   encCalls, wrCalls>>

\* index.add_documents raises: RuntimeError(...) from e
IndexAddRaise ==
    /\ BuildFrame
    /\ pc = "commit"
    /\ first_chunk' = IF final THEN first_chunk ELSE FALSE
    /\ idxCalls' = Append(idxCalls, [n |-> chunk_number, ids |-> id_chunk, ok |-> FALSE])
    /\ pc' = "failed" /\ result' = "raised" /\ err' = IndexError(chunk_number)
    /\ UNCHANGED <<dbVars, batch, total_saved, pos, doc_chunk, id_chunk,
                   total_processed, chunk_number, embeddings, final, off, warned,
                   index, encCalls, wrCalls>>

\* self.batch after add_documents appended the document at offset `off`
BatchWith(b, total, docs, o) ==
    Append(b, <<Str(ChunkStartIdx(total, docs) + o), docs[o + 1]>>)

\* where build_index goes on when add_documents has returned
AfterStore ==
    IF off + 1 < Len(doc_chunk)
    THEN pc' = "store" /\ off' = off + 1 /\ UNCHANGED <<doc_chunk, id_chunk>>
    ELSE /\ off' = 0
         /\ IF final
            THEN pc' = "validate" /\ UNCHANGED <<doc_chunk, id_chunk>>
            ELSE pc' = "pull" /\ doc_chunk' = <<>> /\ id_chunk' = <<>>

\* CollectionWriter.add_documents, one iteration: append (doc_id, doc) and,
\* when the batch is full, add_batch + commit, count and clear
StoreDoc ==
    /\ BuildFrame
    /\ pc = "store"
    /\ LET nb == BatchWith(batch, total_processed, doc_chunk, off)
       IN IF Len(nb) >= batch_size
          THEN /\ conn' = ExecuteMany(conn, nb, Len(nb))
               /\ disk' = conn'
               /\ total_saved' = total_saved + Len(nb)
               /\ batch' = <<>>
          ELSE /\ batch' = nb
               /\ UNCHANGED <<conn, disk, total_saved>>
    /\ AfterStore
    /\ UNCHANGED <<dbOpen, pos, total_processed, first_chunk, chunk_number,
                   embeddings, final, result, err, warned, index, encCalls,
                   idxCalls, wrCalls>>

\* the batch is full and add_batch (n < len) or commit (n = len) raises:
\* logged and re-raised, the batch is kept, nothing is committed
StoreDocRaise ==
    /\ BuildFrame
    /\ pc = "store"
    /\ LET nb == BatchWith(batch, total_processed, doc_chunk, off)
       IN /\ Len(nb) >= batch_size
          /\ \E n \in 0..Len(nb) : conn' = ExecuteMany(conn, nb, n)
          /\ batch' = nb
    /\ pc' = "failed" /\ result' = "raised" /\ err' = StorageError
    /\ UNCHANGED <<disk, dbOpen, total_saved, pos, doc_chunk, id_chunk,
                   total_processed, first_chunk, chunk_number, embeddings, final,
                   off, warned, index, encCalls, idxCalls, wrCalls>>

\* a validation that raises on a count mismatch
ValidateStrict ==
    /\ BuildFrame
    /\ pc = "validate"
    /\ warned' = FALSE
    /\ IF hasWriter /\ total_saved # total_processed
       THEN pc' = "failed" /\ result' = "raised" /\ err' = StorageError
       ELSE pc' = "done" /\ result' = "returned" /\ UNCHANGED err
    /\ UNCHANGED <<dbVars, batch, total_saved, pos, doc_chunk, id_chunk,
                   total_processed, first_chunk, chunk_number, embeddings, final,
                   off, index, encCalls, idxCalls, wrCalls>>

\* the count validation: a mismatch is logged as a warning; return
Validate ==
    /\ BuildFrame
    /\ pc = "validate"
    /\ warned' = (hasWriter /\ total_saved # total_processed)
    /\ pc' = "done" /\ result' = "returned"
    /\ UNCHANGED <<dbVars, batch, total_saved, pos, doc_chunk, id_chunk,
                   total_processed, first_chunk, chunk_number, embeddings, final,
                   off, err, index, encCalls, idxCalls, wrCalls>>

\* an __exit__ that closes without finalize()
WriterExitNoFinalize ==
    /\ BuildFrame
    /\ pc = "done" /\ hasWriter
    /\ conn' = disk
    /\ dbOpen' = FALSE
    /\ pc' = "closed"
    /\ UNCHANGED <<disk, batch, total_saved, pos, doc_chunk, id_chunk,
                   total_processed, first_chunk, chunk_number, embeddings, final,
                   off, result, err, warned, index, encCalls, idxCalls, wrCalls>>

\* CollectionWriter.__exit__ with no exception: finalize() flushes the rest
\* of the batch (add_batch + commit), then close()
WriterExitOk ==
    /\ BuildFrame
    /\ pc = "done" /\ hasWriter
    /\ IF batch # <<>>
       THEN /\ disk' = ExecuteMany(conn, batch, Len(batch))
            /\ total_saved' = total_saved + Len(batch)
            /\ batch' = <<>>
       ELSE UNCHANGED <<disk, total_saved, batch>>
    /\ conn' = disk'
    /\ dbOpen' = FALSE
    /\ pc' = "closed"
    /\ UNCHANGED <<pos, doc_chunk, id_chunk, total_processed, first_chunk,
                   chunk_number, embeddings, final, off, result, err, warned,
                   index, encCalls, idxCalls, wrCalls>>

\* finalize() raises inside __exit__: the exception leaves the with block,
\* close() is not reached and nothing of the batch is committed
WriterExitRaise ==
    /\ BuildFrame
    /\ pc = "done" /\ hasWriter /\ batch # <<>>
    /\ \E n \in 0..Len(batch) : conn' = ExecuteMany(conn, batch, n)
    /\ pc' = "exit_raised"
    /\ UNCHANGED <<disk, dbOpen, batch, total_saved, pos, doc_chunk, id_chunk,
                   total_processed, first_chunk, chunk_number, embeddings, final,
                   off, result, err, warned, index, encCalls, idxCalls, wrCalls>>

\* CollectionWriter.__exit__ with build_index's exception: close() only, the
\* open transaction and the pending batch are dropped
WriterExitExc ==
    /\ BuildFrame
    /\ pc = "failed" /\ hasWriter
    /\ conn' = disk
    /\ dbOpen' = FALSE
    /\ pc' = "closed"
    /\ UNCHANGED <<disk, batch, total_saved, pos, doc_chunk, id_chunk,
                   total_processed, first_chunk, chunk_number, embeddings, final,
                   off, result, err, warned, index, encCalls, idxCalls, wrCalls>>

Init ==
    /\ preexisting \in BOOLEAN
    /\ disk = IF preexisting THEN StaleStore ELSE {}
    /\ conn = disk /\ dbOpen = TRUE
    /\ written = [i \in DbIds |-> PyNone]
    /\ lastOp = NoOp /\ lastBatch = <<>> /\ preConn = {} /\ batchCommitted = FALSE
    /\ hasWriter \in BOOLEAN
    /\ batch_size \in 1..MaxBatch
    /\ batch = <<>> /\ total_saved = 0
    /\ src \in SeqsUpTo(Texts, MaxDocs)
    /\ encoding_chunk_size \in 1..MaxAcc
    /\ pos = 0 /\ doc_chunk = <<>> /\ id_chunk = <<>> /\ total_processed = 0
    /\ first_chunk = TRUE /\ chunk_number = 0 /\ embeddings = <<>>
    /\ pc = "pull" /\ final = FALSE /\ off = 0 /\ result = "running"
    /\ err = NoErr /\ warned = FALSE
    /\ index = <<>> /\ encCalls = <<>> /\ idxCalls = <<>> /\ wrCalls = <<>>
    /\ OtherIdle

Next ==
    \/ Pull
    \/ SourceRaise
    \/ Exhausted
    \/ EncodeOk
    \/ EncodeRaise
    \/ IndexAddOk
    \/ IndexAddRaise
    \/ StoreDoc
    \/ StoreDocRaise
    \/ Validate
    \/ WriterExitOk
    \/ WriterExitRaise
    \/ WriterExitExc

Spec == Init /\ [][Next]_vars

\* ================================================ CollectionWriter, direct
\* The writer called directly: any sequence of add_documents and finalize
\* calls, no storage error.

MaxCalls == 2   \* add_documents calls in one sequence
MaxStart == 1   \* largest start_idx of a call

\* what the writer's own calls leave alone
writerRest == <<dbOpen, written, lastBatch, preConn, batchCommitted, hasWriter,
                batch_size, src, encoding_chunk_size, pos, doc_chunk, id_chunk,
                total_processed, first_chunk, chunk_number, embeddings, pc, final,
                off, result, err, warned, index, encCalls, idxCalls, preexisting,
                otherVars>>

\* the document lists a call passes: up to MaxAcc copies of one text
DocLists == {[k \in 1..n |-> t] : n \in 0..MaxAcc, t \in Texts}

RECURSIVE AddDocumentsLate(_, _, _, _)
\* a writer that flushes only when the batch is over batch_size
AddDocumentsLate(w, docs, start_idx, n) ==
    IF n = 0 THEN w
    ELSE LET p == AddDocumentsLate(w, docs, start_idx, n - 1)
             nb == Append(p.batch, <<Str(start_idx + n - 1), docs[n]>>)
         IN IF Len(nb) > batch_size
            THEN [batch |-> <<>>,
                  total_saved |-> p.total_saved + Len(nb),
                  conn |-> ExecuteMany(p.conn, nb, Len(nb))]
            ELSE [p EXCEPT !.batch = nb]

RECURSIVE AddDocuments(_, _, _, _)
\* CollectionWriter.add_documents after the first n documents of `docs`:
\* for offset, doc in enumerate(documents): append (str(start_idx + offset),
\* doc); if len(self.batch) >= self.batch_size: add_batch, commit,
\* total_saved += len(self.batch), clear
AddDocuments(w, docs, start_idx, n) ==
    IF n = 0 THEN w
    ELSE LET p == AddDocuments(w, docs, start_idx, n - 1)
             nb == Append(p.batch, <<Str(start_idx + n - 1), docs[n]>>)
         IN IF Len(nb) >= batch_size
            THEN [batch |-> <<>>,
                  total_saved |-> p.total_saved + Len(nb),
                  conn |-> ExecuteMany(p.conn, nb, Len(nb))]
            ELSE [p EXCEPT !.batch = nb]

\* writer.add_documents(docs, start_idx) returns
WriterAdd(docs, start_idx) ==
    /\ pc = "writer" /\ Len(wrCalls) < MaxCalls
    /\ LET w == AddDocuments([batch |-> batch, total_saved |-> total_saved,
                              conn |-> conn], docs, start_idx, Len(docs))
       IN /\ batch' = w.batch
          /\ total_saved' = w.total_saved
          /\ conn' = w.conn
          /\ disk' = w.conn
    /\ wrCalls' = Append(wrCalls, [docs |-> docs, start |-> start_idx])
    /\ lastOp' = Op("add_documents", <<>>, "", <<>>, Len(docs))
    /\ UNCHANGED writerRest

\* writer.finalize(): if self.batch: add_batch, commit, count, clear;
\* return self.total_saved.  lastOp keeps what the call flushed and returned.
WriterFinalize ==
    /\ pc = "writer"
    /\ IF batch # <<>>
       THEN /\ conn' = ExecuteMany(conn, batch, Len(batch))
            /\ disk' = conn'
            /\ total_saved' = total_saved + Len(batch)
            /\ batch' = <<>>
       ELSE UNCHANGED <<conn, disk, total_saved, batch>>
    /\ lastOp' = Op("finalize", <<>>, "", batch, total_saved')
    /\ UNCHANGED <<wrCalls, writerRest>>

InitWriter ==
    /\ conn = {} /\ disk = {} /\ dbOpen = TRUE
    /\ written = [i \in DbIds |-> PyNone]
    /\ lastOp = NoOp /\ lastBatch = <<>> /\ preConn = {} /\ batchCommitted = FALSE
    /\ hasWriter = TRUE
    /\ batch_size \in 1..MaxBatch
    /\ batch = <<>> /\ total_saved = 0
    /\ src = <<>> /\ encoding_chunk_size = 1 /\ pos = 0
    /\ doc_chunk = <<>> /\ id_chunk = <<>> /\ total_processed = 0
    /\ first_chunk = TRUE /\ chunk_number = 0 /\ embeddings = <<>>
    /\ pc = "writer" /\ final = FALSE /\ off = 0 /\ result = "running"
    /\ err = NoErr /\ warned = FALSE
    /\ index = <<>> /\ encCalls = <<>> /\ idxCalls = <<>> /\ wrCalls = <<>>
    /\ preexisting = FALSE
    /\ OtherIdle

NextWriter ==
    \/ \E docs \in DocLists, start_idx \in 0..MaxStart : WriterAdd(docs, start_idx)
    \/ WriterFinalize

SpecWriter == InitWriter /\ [][NextWriter]_vars

\* ======================================================= dataset sources
\* Text is a sequence of one-character strings.

NL == "\n"
Dashes == <<"-", "-", "-", "-", "-", "-", "-", "-">>

\* "\n\n--------\n\n"
DELIMITER == <<NL, NL>> \o Dashes \o <<NL, NL>>

\* "\n\n++++++++\n\n", the marker _clean_delimiter puts in place of DELIMITER
Marker == <<NL, NL, "+", "+", "+", "+", "+", "+", "+", "+", NL, NL>>

\* the characters str.strip() removes
Whitespace == {" ", "\t", "\n", "\r", "\f"}

SetMin(S) == CHOOSE x \in S : \A y \in S : x <= y
SetMax(S) == CHOOSE x \in S : \A y \in S : x >= y

\* p occurs in s starting at index i
MatchAt(s, p, i) ==
    /\ i + Len(p) - 1 <= Len(s)
    /\ \A k \in 1..Len(p) : s[i + k - 1] = p[k]

Occurrences(s, p) == {i \in 1..Len(s) : MatchAt(s, p, i)}

\* p in s
Occurs(p, s) == Occurrences(s, p) # {}

\* s.endswith(p)
EndsWith(s, p) == Len(p) <= Len(s) /\ MatchAt(s, p, Len(s) - Len(p) + 1)

\* s.find(p) + 1: the first index where p occurs, 0 when it does not
Find(s, p) == IF Occurs(p, s) THEN SetMin(Occurrences(s, p)) ELSE 0

RECURSIVE PySplit(_, _)
\* s.split(sep): cut at the occurrences of sep found left to right, each
\* search resuming after the previous occurrence
PySplit(s, sep) ==
    LET i == Find(s, sep) IN
    IF i = 0 THEN <<s>>
    ELSE <<SubSeq(s, 1, i - 1)>> \o PySplit(SubSeq(s, i + Len(sep), Len(s)), sep)

RECURSIVE PyReplace(_, _, _)
\* s.replace(old, new): one left-to-right pass over the occurrences of old
\* in s; the text already produced is not searched again
PyReplace(s, old, new) ==
    LET i == Find(s, old) IN
    IF i = 0 THEN s
    ELSE SubSeq(s, 1, i - 1) \o new
         \o PyReplace(SubSeq(s, i + Len(old), Len(s)), old, new)

\* s.strip()
Strip(s) ==
    LET keep == {i \in 1..Len(s) : s[i] \notin Whitespace} IN
    IF keep = {} THEN <<>> ELSE SubSeq(s, SetMin(keep), SetMax(keep))

RECURSIVE PyJoin(_, _)
\* sep.join(parts)
PyJoin(sep, parts) ==
    IF Len(parts) = 0 THEN <<>>
    ELSE IF Len(parts) = 1 THEN parts[1]
    ELSE parts[1] \o sep \o PyJoin(sep, Tail(parts))

\* the stripped, non-empty ones among parts, in order
StrippedNonEmpty(parts) ==
    SelectSeq([k \in 1..Len(parts) |-> Strip(parts[k])], LAMBDA t : t # <<>>)

\* ---------------------------------------------- the delimited flat file
MaxFileDocs == 3   \* most segments joined into one file
MaxRead     == 5   \* largest read size below the size of the whole file

\* the segments a file is joined from
FileParts ==
    { <<"a">>,
      Dashes,
      <<"a", NL, NL>> \o Dashes,          \* ends as the delimiter begins
      Dashes \o <<NL, NL, "b">>,          \* begins as the delimiter ends
      <<"b", NL>>,                        \* not trimmed
      <<>> }                              \* empty

\* the variables of indexer.py other than pc
indexerVars == <<dbVars, dbHist, writerVars, src, encoding_chunk_size, pos, doc_chunk,
                 id_chunk, total_processed, first_chunk, chunk_number, embeddings,
                 final, off, result, err, warned, extVars>>

\* no CollectionDB is open and no build_index is running
IndexerIdle ==
    /\ conn = {} /\ disk = {} /\ dbOpen = FALSE
    /\ written = [i \in DbIds |-> PyNone]
    /\ lastOp = NoOp /\ lastBatch = <<>> /\ preConn = {} /\ batchCommitted = FALSE
    /\ hasWriter = FALSE /\ batch_size = 1 /\ batch = <<>> /\ total_saved = 0
    /\ src = <<>> /\ encoding_chunk_size = 1 /\ pos = 0
    /\ doc_chunk = <<>> /\ id_chunk = <<>> /\ total_processed = 0
    /\ first_chunk = TRUE /\ chunk_number = 0 /\ embeddings = <<>>
    /\ final = FALSE /\ off = 0 /\ result = "running"
    /\ err = NoErr /\ warned = FALSE
    /\ index = <<>> /\ encCalls = <<>> /\ idxCalls = <<>> /\ wrCalls = <<>>
    /\ preexisting = FALSE

\* the variables no dataset step touches
storeVars == <<indexerVars, topkVars, serverVars>>

StoreIdle == IndexerIdle /\ TopkIdle /\ ServerIdle

\* the chunk the next f.read(chunk_size) returns ("" at the end of the file)
NextChunk ==
    SubSeq(fileText, fpos + 1,
           IF fpos + chunk_size < Len(fileText) THEN fpos + chunk_size
           ELSE Len(fileText))

\* a loop turn that yields every part, the last one too, and carries nothing
StreamChunkNoCarry ==
    /\ pc = "stream"
    /\ NextChunk # <<>>
    /\ fpos' = fpos + Len(NextChunk)
    /\ buffer' = <<>>
    /\ yielded' = yielded \o StrippedNonEmpty(PySplit(buffer \o NextChunk, DELIMITER))
    /\ UNCHANGED <<pc, fileDocs, fileText, chunk_size, storeVars, dirVars>>

\* one turn of `for chunk in text_chunks`: append the chunk, split the
\* buffer, keep the last part, yield the stripped non-empty parts before it
StreamChunk ==
    /\ pc = "stream"
    /\ NextChunk # <<>>
    /\ fpos' = fpos + Len(NextChunk)
    /\ LET parts == PySplit(buffer \o NextChunk, DELIMITER) IN
         /\ buffer' = parts[Len(parts)]
         /\ yielded' = yielded \o StrippedNonEmpty(SubSeq(parts, 1, Len(parts) - 1))
    /\ UNCHANGED <<pc, fileDocs, fileText, chunk_size, storeVars, dirVars>>

\* the input is exhausted: yield what is left in the buffer, if not blank
StreamEnd ==
    /\ pc = "stream"
    /\ NextChunk = <<>>
    /\ yielded' = yielded \o StrippedNonEmpty(<<buffer>>)
    /\ buffer' = <<>>
    /\ pc' = "streamed"
    /\ UNCHANGED <<fileDocs, fileText, chunk_size, fpos, storeVars, dirVars>>

\* prepare_from_delimited_txt(path).iter_documents() on a file joined from
\* FileParts; one read returns chunk_size characters, or the whole file
InitSplit ==
    /\ StoreIdle
    /\ fileDocs \in UNION {[1..n -> FileParts] : n \in 1..MaxFileDocs}
    /\ fileText = PyJoin(DELIMITER, fileDocs)
    /\ chunk_size \in (1..MaxRead) \cup {Len(fileText) + 1}
    /\ fpos = 0 /\ buffer = <<>> /\ yielded = <<>>
    /\ DirIdle
    /\ pc = "stream"

NextSplit ==
    \/ StreamChunk
    \/ StreamEnd

SpecSplit == InitSplit /\ [][NextSplit]_vars

\* ------------------------------------- the splitter over arbitrary buffers
\* _stream_documents_from_delimited_text(text_chunks, delimiter) takes any
\* iterator of buffers: here the next buffer is any non-empty run of the
\* characters that follow, so a run of the specification is one way of
\* cutting the text

MaxCutDocs == 2   \* most segments joined into a text that is cut freely

\* a loop turn over a buffer of any size that carries nothing over
StreamCutNoCarry ==
    /\ pc = "stream"
    /\ \E n \in 1..(Len(fileText) - fpos) :
         /\ fpos' = fpos + n
         /\ buffer' = <<>>
         /\ yielded' = yielded \o
               StrippedNonEmpty(PySplit(buffer \o SubSeq(fileText, fpos + 1, fpos + n),
                                        DELIMITER))
    /\ UNCHANGED <<pc, fileDocs, fileText, chunk_size, storeVars, dirVars>>

\* one turn of `for chunk in text_chunks` for a buffer of n characters
StreamCut ==
    /\ pc = "stream"
    /\ \E n \in 1..(Len(fileText) - fpos) :
         LET chunk == SubSeq(fileText, fpos + 1, fpos + n)
             parts == PySplit(buffer \o chunk, DELIMITER)
         IN  /\ fpos' = fpos + n
             /\ buffer' = parts[Len(parts)]
             /\ yielded' = yielded \o
                   StrippedNonEmpty(SubSeq(parts, 1, Len(parts) - 1))
    /\ UNCHANGED <<pc, fileDocs, fileText, chunk_size, storeVars, dirVars>>

\* the splitter over a text joined from FileParts; chunk_size plays no part
\* (NextChunk is empty exactly at the end of the text)
InitCut ==
    /\ StoreIdle
    /\ fileDocs \in UNION {[1..n -> FileParts] : n \in 1..MaxCutDocs}
    /\ fileText = PyJoin(DELIMITER, fileDocs)
    /\ chunk_size = 1
    /\ fpos = 0 /\ buffer = <<>> /\ yielded = <<>>
    /\ DirIdle
    /\ pc = "stream"

NextCut ==
    \/ StreamCut
    \/ StreamEnd

SpecCut == InitCut /\ [][NextCut]_vars

\* ------------------------------------------------ the directory source
MaxFiles == 2      \* most files in the directory
ReadSize == 8192   \* f.read(8192) on the cache artifact

TextSuffixes == {".txt", ".md"}
RichSuffixes == {".pdf", ".xps", ".epub", ".mobi", ".fb2", ".cbz"}

\* a file: its lower-cased suffix, its text (for a rich format: the text of
\* its one page) and whether opening or reading it raises
File(suffix, text, raises) == [suffix |-> suffix, text |-> text, raises |-> raises]

\* "a\n\n--------\n\n--------\n\nb": two occurrences sharing two newlines
TwoDelims == <<"a">> \o DELIMITER \o Dashes \o <<NL, NL, "b">>

DirFileKinds ==
    { File(".txt", <<"a">>, FALSE),
      File(".md", <<"b", NL>>, FALSE),
      File(".txt", <<"a">> \o DELIMITER \o <<"b">>, FALSE),
      File(".txt", TwoDelims, FALSE),
      File(".txt", <<"a", NL, NL>> \o Dashes, FALSE),
      File(".txt", <<" ", NL>>, FALSE),
      File(".txt", <<"a">>, TRUE),
      File(".pdf", <<"b">>, FALSE),
      File(".pdf", <<"b">>, TRUE),
      File(".png", <<"a">>, FALSE) }

\* the document sequences of an artifact left by an earlier run
OldCaches == { <<<<"o">>>>, <<<<"o">>, <<"a">>>> }

PageBegin ==
    <<"-", "-", "-", "-", " ", "B", "e", "g", "i", "n", "n", "i", "n", "g",
      " ", "o", "f", " ", "p", "a", "g", "e", " ", "1", " ", "-", "-",
      "-", "-", NL, NL>>

PageEnd ==
    <<NL, NL, "-", "-", "-", "-", " ", "E", "n", "d", " ", "o", "f", " ",
      "p", "a", "g", "e", " ", "1", " ", "-", "-", "-", "-", NL, NL>>

\* _clean_delimiter
CleanDelimiter(text) == PyReplace(text, DELIMITER, Marker)

\* _read_txt_or_md of a file that can be read
ReadTxtOrMd(p) == CleanDelimiter(p.text)

\* _read_document: the pages framed by their markers, "" when anything raises
ReadDocument(p) ==
    IF p.raises THEN <<>>
    ELSE CleanDelimiter(PageBegin \o p.text \o PageEnd)

Supported(p) == p.suffix \in TextSuffixes \cup RichSuffixes

\* the text the scan loop holds for a supported file after text.strip()
Extracted(p) ==
    Strip(IF p.suffix \in TextSuffixes THEN ReadTxtOrMd(p) ELSE ReadDocument(p))

\* the directories a change of one file leads to: a file replaced, removed
\* or added
Changed(d) ==
    {[d EXCEPT ![k] = f] : k \in 1..Len(d), f \in DirFileKinds}
    \cup {SubSeq(d, 1, k - 1) \o SubSeq(d, k + 1, Len(d)) : k \in 1..Len(d)}
    \cup {Append(d, f) : f \in IF Len(d) < MaxFiles THEN DirFileKinds ELSE {}}

dirFrame == <<fileDocs, storeVars>>

\* a prepare that ignores the artifact it finds: lists the files and opens
\* the artifact for writing
PrepareRescan ==
    /\ pc = "prepare"
    /\ cacheExists
    /\ cacheText' = <<>>
    /\ cacheCorrupt' = FALSE
    /\ scanIdx' = 0
    /\ doc_count' = 0
    /\ scans' = scans + 1
    /\ pc' = "scan"
    /\ UNCHANGED <<dirFiles, cacheExists, run, firstYield, cacheDocs, fileText,
                   chunk_size, fpos, buffer, yielded, dirFrame>>

\* cache_path.exists(): the dataset is returned with an iterator over the
\* artifact; nothing is read
PrepareCached ==
    /\ pc = "prepare"
    /\ cacheExists
    /\ pc' = "prepared"
    /\ UNCHANGED <<dirFiles, cacheExists, cacheText, cacheCorrupt, scanIdx, doc_count,
                   scans, run, firstYield, cacheDocs, fileText, chunk_size, fpos,
                   buffer, yielded, dirFrame>>

\* no artifact: list the files and open the artifact for writing
ScanOpen ==
    /\ pc = "prepare"
    /\ ~cacheExists
    /\ cacheExists' = TRUE
    /\ cacheText' = <<>>
    /\ cacheCorrupt' = FALSE
    /\ scanIdx' = 0
    /\ doc_count' = 0
    /\ scans' = scans + 1
    /\ pc' = "scan"
    /\ UNCHANGED <<dirFiles, run, firstYield, cacheDocs, fileText, chunk_size, fpos,
                   buffer, yielded, dirFrame>>

\* one turn of `for idx, p in enumerate(files, 1)` that does not raise
ScanFile ==
    /\ pc = "scan"
    /\ scanIdx < Len(dirFiles)
    /\ LET p == dirFiles[scanIdx + 1] IN
         /\ ~(p.suffix \in TextSuffixes /\ p.raises)
         /\ IF Supported(p) /\ Extracted(p) # <<>>
            THEN /\ cacheText' = cacheText
                                 \o (IF doc_count > 0 THEN DELIMITER ELSE <<>>)
                                 \o Extracted(p)
                 /\ doc_count' = doc_count + 1
            ELSE UNCHANGED <<cacheText, doc_count>>
    /\ scanIdx' = scanIdx + 1
    /\ UNCHANGED <<pc, dirFiles, cacheExists, cacheCorrupt, scans, run, firstYield,
                   cacheDocs, fileText, chunk_size, fpos, buffer, yielded, dirFrame>>

\* _read_txt_or_md raises: the exception leaves the loop and the with block
\* (the artifact is closed with what was written) and is logged by the
\* except of the scan
ScanFileRaise ==
    /\ pc = "scan"
    /\ scanIdx < Len(dirFiles)
    /\ dirFiles[scanIdx + 1].suffix \in TextSuffixes
    /\ dirFiles[scanIdx + 1].raises
    /\ pc' = "prepared"
    /\ UNCHANGED <<dirFiles, cacheExists, cacheText, cacheCorrupt, scanIdx, doc_count,
                   scans, run, firstYield, cacheDocs, fileText, chunk_size, fpos,
                   buffer, yielded, dirFrame>>

\* the loop is over: the artifact is closed and the dataset returned
ScanDone ==
    /\ pc = "scan"
    /\ scanIdx = Len(dirFiles)
    /\ pc' = "prepared"
    /\ UNCHANGED <<dirFiles, cacheExists, cacheText, cacheCorrupt, scanIdx, doc_count,
                   scans, run, firstYield, cacheDocs, fileText, chunk_size, fpos,
                   buffer, yielded, dirFrame>>

\* iter_documents(): lzma.open the artifact and stream it through the splitter
IterOpen ==
    /\ pc = "prepared"
    /\ cacheExists /\ ~cacheCorrupt
    /\ fileText' = cacheText
    /\ chunk_size' = ReadSize
    /\ fpos' = 0 /\ buffer' = <<>> /\ yielded' = <<>>
    /\ pc' = "stream"
    /\ UNCHANGED <<dirVars, dirFrame>>

\* the artifact cannot be decompressed: the iteration raises
IterOpenRaise ==
    /\ pc = "prepared"
    /\ ~cacheExists \/ cacheCorrupt
    /\ pc' = "iter_raised"
    /\ UNCHANGED <<dirVars, splitVars, storeVars>>

\* an end of iteration that removes the artifact it has read
IterAgainRemoving ==
    /\ pc = "streamed"
    /\ run = 1
    /\ firstYield' = yielded
    /\ cacheExists' = FALSE
    /\ cacheText' = <<>>
    /\ pc' = "prepared"
    /\ UNCHANGED <<dirFiles, cacheCorrupt, scanIdx, doc_count, scans, run,
                   cacheDocs, splitVars, storeVars>>

\* the dataset is iterated once more: iter_documents() calls the factory
\* again; what the last iteration yielded is kept for comparison
IterAgain ==
    /\ pc = "streamed"
    /\ run = 1
    /\ firstYield' = yielded
    /\ pc' = "prepared"
    /\ UNCHANGED <<dirFiles, cacheExists, cacheText, cacheCorrupt, scanIdx, doc_count,
                   scans, run, cacheDocs, splitVars, storeVars>>

\* the directory is changed (or not) and prepare_from_directory runs again
RunAgain ==
    /\ pc = "streamed"
    /\ run = 1
    /\ dirFiles' \in Changed(dirFiles) \cup {dirFiles}
    /\ firstYield' = yielded
    /\ run' = 2
    /\ pc' = "prepare"
    /\ UNCHANGED <<cacheExists, cacheText, cacheCorrupt, scanIdx, doc_count, scans,
                   cacheDocs, splitVars, storeVars>>

InitDir ==
    /\ StoreIdle
    /\ SplitIdle
    /\ dirFiles \in UNION {[1..n -> DirFileKinds] : n \in 0..MaxFiles}
    /\ cacheExists \in BOOLEAN
    /\ cacheDocs \in IF cacheExists THEN OldCaches ELSE {<<>>}
    /\ cacheText = PyJoin(DELIMITER, cacheDocs)
    /\ cacheCorrupt \in IF cacheExists THEN BOOLEAN ELSE {FALSE}
    /\ scanIdx = 0 /\ doc_count = 0 /\ scans = 0 /\ run = 1 /\ firstYield = <<>>
    /\ pc = "prepare"

NextDir ==
    \/ PrepareCached
    \/ ScanOpen
    \/ ScanFile
    \/ ScanFileRaise
    \/ ScanDone
    \/ IterOpen
    \/ IterOpenRaise
    \/ StreamChunk
    \/ StreamEnd
    \/ IterAgain
    \/ RunAgain

SpecDir == InitDir /\ [][NextDir]_vars

\* ========================================================= search service
\* ------------------------------------------------------ _results_to_topk
MaxHits  == 3   \* most hits in one result list
FloatExp == 1   \* math.exp(s) is a finite non-zero float for -FloatExp <= s <= FloatExp

\* the scores the index engine reports: one below the range of math.exp, the
\* range, and one above it
Scores == (0 - FloatExp - 1)..(FloatExp + 1)

\* the ids the index engine reports: as text, "10" < "2"
HitIds == {2, 10}

\* the result lists retrieve_topk returns: results[0] as (id, score) pairs
Hits == {<<id, score>> : id \in HitIds, score \in Scores}

RECURSIVE Pow2(_)
Pow2(n) == IF n = 0 THEN 1 ELSE 2 * Pow2(n - 1)

\* Floats are counted in units of the smallest non-zero value of math.exp,
\* with base 2 in place of e: the value of math.exp(s) where it returns
\* (0.0 below the range: underflow)
ExpUnits(s) == IF s < 0 - FloatExp THEN 0 ELSE Pow2(s + FloatExp)

\* math.exp(s) raises OverflowError("math range error")
ExpOverflows(s) == s > FloatExp

\* the first float value that is inf: twice the largest value of math.exp
InfUnits == 2 * Pow2(2 * FloatExp)

RECURSIVE SumSeq(_)
\* sum(probs)
SumSeq(xs) == IF xs = <<>> THEN 0 ELSE xs[1] + SumSeq(Tail(xs))

\* server.py:64-69: the probabilities, each a fraction <<num, den>>
Softmax(all_scores) ==
    LET probs == [i \in 1..Len(all_scores) |-> ExpUnits(all_scores[i])]
        s     == SumSeq(probs)
    IN  IF s >= InfUnits THEN [i \in 1..Len(probs) |-> <<0, 1>>]        \* p / inf
        ELSE IF s > 0 THEN [i \in 1..Len(probs) |-> <<probs[i], s>>]
        ELSE [i \in 1..Len(probs) |-> <<1, Len(probs)>>]

\* the rank of a character among the digits
DigitRank(c) == CHOOSE r \in 1..Len(Digits) : Digits[r] = c

RECURSIVE StrLess(_, _)
\* a < b for two str values
StrLess(a, b) ==
    IF b = <<>> THEN FALSE
    ELSE IF a = <<>> THEN TRUE
    ELSE IF a[1] = b[1] THEN StrLess(Tail(a), Tail(b))
    ELSE DigitRank(a[1]) < DigitRank(b[1])

\* a sort key of the score alone: equal scores stay in the engine's order
KeyLessByScore(x, y) == x.score > y.score

\* the sort key (-score, pid) of x is smaller than that of y
KeyLess(x, y) ==
    \/ x.score > y.score
    \/ x.score = y.score /\ StrLess(x.pid, y.pid)

\* x put into the sorted list after every item whose key is not larger
InsertSorted(sorted, x) ==
    LET before == {i \in 1..Len(sorted) : ~KeyLess(x, sorted[i])}
        n      == IF before = {} THEN 0 ELSE SetMax(before)
    IN  SubSeq(sorted, 1, n) \o <<x>> \o SubSeq(sorted, n + 1, Len(sorted))

RECURSIVE SortTopk(_)
\* topk.sort(key=lambda x: (-x["score"], x["pid"])): a stable sort
SortTopk(items) ==
    IF items = <<>> THEN <<>>
    ELSE InsertSorted(SortTopk(SubSeq(items, 1, Len(items) - 1)), items[Len(items)])

\* `if collection`: None and an empty mapping are both false
Truthy(coll) == coll # <<>> /\ Count(coll[1]) > 0

\* a lookup by subscript: KeyError for an id the collection does not hold
TextOfSubscript(coll, doc_id) ==
    IF Truthy(coll) THEN GetItem(coll[1], doc_id) ELSE PyNone

\* text = collection.get(doc_id) if collection else None
TextOf(coll, doc_id) ==
    IF Truthy(coll) THEN Get(coll[1], doc_id, PyNone) ELSE PyNone

\* _results_to_topk(results, collection) where no math.exp overflows; text is
\* PyNone where the item has no "text" key
ResultsToTopk(res, coll) ==
    LET all_scores == [r \in 1..Len(res) |-> res[r][2]]
        probs      == Softmax(all_scores)
    IN  SortTopk([r \in 1..Len(res) |->
                    [pid   |-> Str(res[r][1]),
                     rank  |-> r - 1,
                     score |-> res[r][2],
                     text  |-> TextOf(coll, Str(res[r][1])),
                     prob  |-> probs[r]]])

topkFrame == <<indexerVars, splitVars, dirVars, serverVars, shape>>

\* _results_to_topk returns
ResultsToTopkOk ==
    /\ pc = "topk"
    /\ \A r \in 1..Len(results) : ~ExpOverflows(results[r][2])
    /\ topk' = ResultsToTopk(results, collection)
    /\ pc' = "topk_returned"
    /\ UNCHANGED <<results, collection, cause, topkFrame>>

\* math.exp raises for one of the scores
ResultsToTopkRaise ==
    /\ pc = "topk"
    /\ \E r \in 1..Len(results) : ExpOverflows(results[r][2])
    /\ cause' = "OverflowError"
    /\ pc' = "topk_raised"
    /\ UNCHANGED <<results, collection, topk, topkFrame>>

\* load_collection(index_path): None when collection.db does not exist, else
\* the CollectionDB over the table of the file
load_collection(exists, tbl) == IF ~exists THEN <<>> ELSE <<tbl>>

\* the collections a server is given: what load_collection returned
Collections ==
    {load_collection(exists, tbl) :
        exists \in BOOLEAN, tbl \in {{}, {<<Str(2), "a">>}}}

InitTopk ==
    /\ IndexerIdle /\ SplitIdle /\ DirIdle /\ ServerIdle
    /\ results \in UNION {[1..n -> Hits] : n \in 0..MaxHits}
    /\ collection \in Collections
    /\ topk = <<>> /\ cause = PyNone
    /\ shape = <<"pairs", TRUE>>
    /\ pc = "topk"

NextTopk ==
    \/ ResultsToTopkOk
    \/ ResultsToTopkRaise

SpecTopk == InitTopk /\ [][NextTopk]_vars

\* ----------------------------------------- the shapes of an engine result
\* A Python value is [type, items]: a list of values, a tuple (id, score), a
\* dict with the keys "id" and "score" (items = <<id, score>>), or a frame
\* with the columns id and score (items = its rows <<id, score>>).

Py(type, items) == [type |-> type, items |-> items]

\* pairs, dicts or a frame; nested in a per-query list or not
Shapes == {"pairs", "dicts", "frame"} \X BOOLEAN

\* the same ordered hits as the value the engine returns in shape sh
Shaped(sh, hits) ==
    LET flat == IF sh[1] = "frame" THEN Py("frame", hits)
                ELSE Py("list", [r \in 1..Len(hits) |->
                                   IF sh[1] = "pairs" THEN Py("tuple", hits[r])
                                   ELSE Py("dict", hits[r])])
    IN  IF sh[2] THEN Py("list", <<flat>>) ELSE flat

RECURSIVE InnerRows(_)
\* the rows the loop over the inner list appends: the (id, score) of a dict
\* by its keys, of a tuple by item[0] and item[1]; any other item is skipped
\* (item[0] raises)
InnerRows(items) ==
    IF items = <<>> THEN <<>>
    ELSE (IF items[1].type \in {"dict", "tuple"} THEN <<items[1].items>> ELSE <<>>)
         \o InnerRows(Tail(items))

\* the branches of _results_to_topk: a list is looked at through its first
\* element, which must be a frame or a list; a value that is not a list must
\* be a frame; anything else gives no row
Rows(value) ==
    IF value.type = "list"
    THEN IF Len(value.items) > 0
         THEN LET inner == value.items[1] IN
                IF inner.type = "frame" THEN inner.items
                ELSE IF inner.type = "list" THEN InnerRows(inner.items)
                ELSE <<>>
         ELSE <<>>
    ELSE IF value.type = "frame" THEN value.items
    ELSE <<>>

\* _results_to_topk returns for hits that arrive in the shape
ShapedOk ==
    /\ pc = "shaped"
    /\ LET rows == Rows(Shaped(shape, results)) IN
         /\ \A r \in 1..Len(rows) : ~ExpOverflows(rows[r][2])
         /\ topk' = ResultsToTopk(rows, collection)
    /\ pc' = "topk_returned"
    /\ UNCHANGED <<results, collection, cause, topkFrame>>

\* math.exp raises for the score of one of the rows
ShapedRaise ==
    /\ pc = "shaped"
    /\ LET rows == Rows(Shaped(shape, results)) IN
         \E r \in 1..Len(rows) : ExpOverflows(rows[r][2])
    /\ cause' = "OverflowError"
    /\ pc' = "topk_raised"
    /\ UNCHANGED <<results, collection, topk, topkFrame>>

\* the same hits handed over in every shape
InitShape ==
    /\ IndexerIdle /\ SplitIdle /\ DirIdle /\ ServerIdle
    /\ results \in UNION {[1..n -> Hits] : n \in 0..MaxHits}
    /\ collection = <<{<<Str(2), "a">>}>>
    /\ topk = <<>> /\ cause = PyNone
    /\ shape \in Shapes
    /\ pc = "shaped"

NextShape ==
    \/ ShapedOk
    \/ ShapedRaise

SpecShape == InitShape /\ [][NextShape]_vars

\* ------------------------------------------------- cached_query, search
maxsize == 2    \* lru_cache(maxsize=1024), scaled down so that the cache fills
MaxReqs == 5    \* most requests served

Queries == {"q1", "q2"}
Ks == {1, 2}
Keys == Queries \X Ks

\* the result lists the index engine may return for a query with this k
EngineResults(k) ==
    {SubSeq(h, 1, k) : h \in {<<<<0, 1>>, <<1, 0>>>>, <<<<1, 1>>, <<0, 0>>>>}}

\* a request and its outcome: status 200 with resp = <<response>>, or status
\* 500 with the detail of the HTTPException and no response; encoded /
\* indexed: the encoder / the index engine was invoked; evicted: the key the
\* cache dropped, <<>> when it dropped none
Outcome(q, k, status, resp, detail, encoded, indexed, evicted) ==
    [q |-> q, k |-> k, status |-> status, resp |-> resp, detail |-> detail,
     encoded |-> encoded, indexed |-> indexed, evicted |-> evicted]

\* a lookup that finds the entry of the query whatever its k
CachePosAnyK(cache, q, k) ==
    IF \E i \in 1..Len(cache) : cache[i].q = q
    THEN CHOOSE i \in 1..Len(cache) : cache[i].q = q
    ELSE 0

\* the position of the entry for (q, k) in the cache, 0 when there is none
CachePos(cache, q, k) ==
    IF \E i \in 1..Len(cache) : cache[i].q = q /\ cache[i].k = k
    THEN CHOOSE i \in 1..Len(cache) : cache[i].q = q /\ cache[i].k = k
    ELSE 0

\* a hit that leaves the entry where it is
TouchNot(cache, i) == cache

\* a hit makes entry i the most recently used
Touch(cache, i) ==
    SubSeq(cache, 1, i - 1) \o SubSeq(cache, i + 1, Len(cache)) \o <<cache[i]>>

\* a miss stores the new entry; a full cache first drops its oldest entry
CacheInsert(cache, e) ==
    IF Len(cache) >= maxsize THEN Append(Tail(cache), e) ELSE Append(cache, e)

\* the key a miss makes the cache drop
Evicted(cache) ==
    IF Len(cache) >= maxsize THEN <<cache[1].q, cache[1].k>> ELSE <<>>

\* key moved to the end of the keys served
Served(keys, key) == SelectSeq(keys, LAMBDA x : x # key) \o <<key>>

serverFrame == <<indexerVars, splitVars, dirVars, results, topk, cause, collection,
                shape, inflight>>

\* GET /search?query=q&k=k answered from the cache
SearchHit(q, k) ==
    /\ pc = "serve"
    /\ reqs < MaxReqs
    /\ CachePos(qcache, q, k) # 0
    /\ LET i == CachePos(qcache, q, k) IN
         /\ last' = <<Outcome(q, k, 200, <<qcache[i].resp>>, PyNone, FALSE, FALSE, <<>>)>>
         /\ answered' = [answered EXCEPT ![<<q, k>>] = <<qcache[i].resp>>]
         /\ qcache' = Touch(qcache, i)
    /\ recency' = Served(recency, <<q, k>>)
    /\ reqs' = reqs + 1
    /\ UNCHANGED <<pc, encN, idxN, failures, serverFrame>>

\* a miss: encode the query, query the index engine, convert, store, return
SearchMiss(q, k, hits) ==
    /\ pc = "serve"
    /\ reqs < MaxReqs
    /\ CachePos(qcache, q, k) = 0
    /\ LET resp == [query |-> q, topk |-> ResultsToTopk(hits, collection)] IN
         /\ last' = <<Outcome(q, k, 200, <<resp>>, PyNone, TRUE, TRUE, Evicted(qcache))>>
         /\ answered' = [answered EXCEPT ![<<q, k>>] = <<resp>>]
         /\ qcache' = CacheInsert(qcache, [q |-> q, k |-> k, resp |-> resp])
    /\ recency' = Served(recency, <<q, k>>)
    /\ reqs' = reqs + 1
    /\ encN' = [encN EXCEPT ![<<q, k>>] = @ + 1]
    /\ idxN' = [idxN EXCEPT ![<<q, k>>] = @ + 1]
    /\ UNCHANGED <<pc, failures, serverFrame>>

\* a failing request that still stores an entry for its key
SearchEncodeRaiseStored(q, k) ==
    /\ pc = "serve"
    /\ reqs < MaxReqs
    /\ CachePos(qcache, q, k) = 0
    /\ last' = <<Outcome(q, k, 500, <<>>, "encoder error", TRUE, FALSE, <<>>)>>
    /\ qcache' = CacheInsert(qcache, [q |-> q, k |-> k,
                                      resp |-> [query |-> q, topk |-> <<>>]])
    /\ reqs' = reqs + 1
    /\ encN' = [encN EXCEPT ![<<q, k>>] = @ + 1]
    /\ failures' = failures + 1
    /\ UNCHANGED <<pc, answered, recency, idxN, serverFrame>>

\* a miss whose encode_query raises: HTTPException(500, detail=str(e))
SearchEncodeRaise(q, k) ==
    /\ pc = "serve"
    /\ reqs < MaxReqs
    /\ CachePos(qcache, q, k) = 0
    /\ last' = <<Outcome(q, k, 500, <<>>, "encoder error", TRUE, FALSE, <<>>)>>
    /\ reqs' = reqs + 1
    /\ encN' = [encN EXCEPT ![<<q, k>>] = @ + 1]
    /\ failures' = failures + 1
    /\ UNCHANGED <<pc, qcache, answered, recency, idxN, serverFrame>>

\* a miss whose retrieve_topk raises: HTTPException(500, detail=str(e))
SearchRetrieveRaise(q, k) ==
    /\ pc = "serve"
    /\ reqs < MaxReqs
    /\ CachePos(qcache, q, k) = 0
    /\ last' = <<Outcome(q, k, 500, <<>>, "index error", TRUE, TRUE, <<>>)>>
    /\ reqs' = reqs + 1
    /\ encN' = [encN EXCEPT ![<<q, k>>] = @ + 1]
    /\ idxN' = [idxN EXCEPT ![<<q, k>>] = @ + 1]
    /\ failures' = failures + 1
    /\ UNCHANGED <<pc, qcache, answered, recency, serverFrame>>

\* create_app(model, retriever, collection): an empty cache
InitServer ==
    /\ IndexerIdle /\ SplitIdle /\ DirIdle
    /\ results = <<>> /\ topk = <<>> /\ cause = PyNone
    /\ shape = <<"pairs", TRUE>>
    /\ collection = <<{<<Str(0), "a">>}>>
    /\ qcache = <<>>
    /\ answered = [key \in Keys |-> <<>>]
    /\ recency = <<>>
    /\ last = <<>>
    /\ reqs = 0
    /\ encN = [key \in Keys |-> 0]
    /\ idxN = [key \in Keys |-> 0]
    /\ failures = 0
    /\ inflight = <<>>
    /\ pc = "serve"

NextServer ==
    \/ \E q \in Queries, k \in Ks : SearchHit(q, k)
    \/ \E q \in Queries, k \in Ks : \E hits \in EngineResults(k) : SearchMiss(q, k, hits)
    \/ \E q \in Queries, k \in Ks : SearchEncodeRaise(q, k)
    \/ \E q \in Queries, k \in Ks : SearchRetrieveRaise(q, k)

SpecServer == InitServer /\ [][NextServer]_vars

\* ------------------------------------------ search requests that overlap
\* search is a plain def, so the requests run on the threads of a pool.
\* lru_cache looks the key up and stores the result under its own lock, but
\* calls cached_query outside it: between a miss and the store of its result
\* other threads run.

MaxThreads  == 2   \* threads serving requests at once
MaxConcReqs == 3   \* most requests begun

Threads == 1..MaxThreads

\* what the threads leave alone
concFrame == <<indexerVars, splitVars, dirVars, results, topk, cause, collection,
               shape, answered, recency, last>>

\* a lookup that finds the entry: it becomes the most recently used
ConcHit(t, q, k) ==
    /\ pc = "serve_threads"
    /\ reqs < MaxConcReqs
    /\ inflight[t] = <<>>
    /\ CachePos(qcache, q, k) # 0
    /\ qcache' = Touch(qcache, CachePos(qcache, q, k))
    /\ reqs' = reqs + 1
    /\ UNCHANGED <<pc, encN, idxN, failures, inflight, concFrame>>

\* a lookup that finds no entry, then the body of cached_query: encode the
\* query, query the index engine, convert; the result is not stored yet
ConcCall(t, q, k, hits) ==
    /\ pc = "serve_threads"
    /\ reqs < MaxConcReqs
    /\ inflight[t] = <<>>
    /\ CachePos(qcache, q, k) = 0
    /\ inflight' = [inflight EXCEPT ![t] =
                      <<[q |-> q, k |-> k,
                         resp |-> [query |-> q,
                                   topk |-> ResultsToTopk(hits, collection)]]>>]
    /\ reqs' = reqs + 1
    /\ encN' = [encN EXCEPT ![<<q, k>>] = @ + 1]
    /\ idxN' = [idxN EXCEPT ![<<q, k>>] = @ + 1]
    /\ UNCHANGED <<pc, qcache, failures, concFrame>>

\* a lookup that finds no entry, and encode_query raises: nothing is stored
ConcCallRaise(t, q, k) ==
    /\ pc = "serve_threads"
    /\ reqs < MaxConcReqs
    /\ inflight[t] = <<>>
    /\ CachePos(qcache, q, k) = 0
    /\ reqs' = reqs + 1
    /\ encN' = [encN EXCEPT ![<<q, k>>] = @ + 1]
    /\ failures' = failures + 1
    /\ UNCHANGED <<pc, qcache, idxN, inflight, concFrame>>

\* the call has returned: lru_cache stores the result, unless the key was
\* stored by another thread during the call; a full cache drops its oldest
\* entry first
ConcStore(t) ==
    /\ pc = "serve_threads"
    /\ inflight[t] # <<>>
    /\ qcache' = IF CachePos(qcache, inflight[t][1].q, inflight[t][1].k) # 0
                  THEN qcache
                  ELSE CacheInsert(qcache, inflight[t][1])
    /\ inflight' = [inflight EXCEPT ![t] = <<>>]
    /\ UNCHANGED <<pc, reqs, encN, idxN, failures, concFrame>>

\* create_app(...) serving on a pool of threads: an empty cache, no call
InitConc ==
    /\ IndexerIdle /\ SplitIdle /\ DirIdle
    /\ results = <<>> /\ topk = <<>> /\ cause = PyNone
    /\ shape = <<"pairs", TRUE>>
    /\ collection = <<{<<Str(0), "a">>}>>
    /\ qcache = <<>>
    /\ answered = <<>> /\ recency = <<>> /\ last = <<>>
    /\ reqs = 0
    /\ encN = [key \in Keys |-> 0]
    /\ idxN = [key \in Keys |-> 0]
    /\ failures = 0
    /\ inflight = [t \in Threads |-> <<>>]
    /\ pc = "serve_threads"

NextConc ==
    \/ \E t \in Threads, q \in Queries, k \in Ks : ConcHit(t, q, k)
    \/ \E t \in Threads, q \in Queries, k \in Ks :
          \E hits \in EngineResults(k) : ConcCall(t, q, k, hits)
    \/ \E t \in Threads, q \in Queries, k \in Ks : ConcCallRaise(t, q, k)
    \/ \E t \in Threads : ConcStore(t)

SpecConc == InitConc /\ [][NextConc]_vars

\* ============================================================ properties
Range(seq) == {seq[k] : k \in 1..Len(seq)}

\* the ids the index engine holds, the ids the Text Store holds
IndexIds == {index[k][1] : k \in 1..Len(index)}
StoreIds(tbl) == {r[1] : r \in tbl}
IdSet(n) == {Str(i) : i \in 0..(n - 1)}

RECURSIVE ConcatIds(_)
\* the ids of all index.add_documents calls, in call order
ConcatIds(calls) ==
    IF calls = <<>> THEN <<>>
    ELSE ConcatIds(SubSeq(calls, 1, Len(calls) - 1)) \o calls[Len(calls)].ids

OkCalls == {j \in 1..Len(idxCalls) : idxCalls[j].ok}

\* build_index raised because the encoder or the index engine failed
EncIdxFailed == result = "raised" /\ err.kind \in {"encode", "index"}

\* C1: after a run over N chunks that completes without error, with a writer
\* on an initially empty Text Store finalized on context exit, index and Text
\* Store hold the same ids, exactly str(0)..str(N-1), and the Text Store's
\* text for an id is the text whose embedding the index holds under that id.
C1_IndexAndStoreAgree ==
    (pc = "closed" /\ result = "returned" /\ hasWriter /\ ~preexisting) =>
        /\ IndexIds = StoreIds(disk)
        /\ IndexIds = IdSet(Len(src))
        /\ Len(index) = Len(src)
        /\ Count(disk) = Len(src)
        /\ \A k \in 1..Len(index) :
              /\ HasKey(disk, index[k][1])
              /\ Embed(GetItem(disk, index[k][1])) = index[k][2]

C1_Witness ==
    /\ pc = "closed" /\ result = "returned" /\ hasWriter /\ ~preexisting
    /\ Len(src) >= 3 /\ encoding_chunk_size = 2 /\ batch_size = 2
    /\ src[1] # src[2]

\* C2: the ids handed to the index engine, concatenated in call order, are
\* str(0), str(1), ... without gap or repeat; the i-th chunk pulled carries id
\* i; each hand-off to the writer starts at the id of its window's first
\* chunk and carries that window's texts; a completed run committed them all.
C2_DenseIds ==
    /\ ConcatIds(idxCalls) = [i \in 1..Len(ConcatIds(idxCalls)) |-> Str(i - 1)]
    /\ Len(id_chunk) = Len(doc_chunk)
    /\ \A k \in 1..Len(id_chunk) :
          /\ id_chunk[k] = Str(pos - Len(id_chunk) + k - 1)
          /\ doc_chunk[k] = src[pos - Len(id_chunk) + k]
    /\ \A j \in 1..Len(wrCalls) :
          /\ idxCalls[j].ok
          /\ Str(wrCalls[j].start) = idxCalls[j].ids[1]
          /\ Len(wrCalls[j].docs) = Len(idxCalls[j].ids)
          /\ \A k \in 1..Len(wrCalls[j].docs) :
                wrCalls[j].docs[k] = src[wrCalls[j].start + k]
    /\ result = "returned" =>
          /\ Len(ConcatIds(idxCalls)) = Len(src)
          /\ OkCalls = 1..Len(idxCalls)

C2_Witness ==
    /\ result = "returned" /\ Len(idxCalls) >= 2 /\ Len(wrCalls) >= 2
    /\ Len(idxCalls[2].ids) = 1 /\ Len(idxCalls[1].ids) = 2

\* the hand-offs to the writer whose add_documents call has returned
StoredCalls ==
    {j \in 1..Len(wrCalls) :
        j < Len(wrCalls) \/ pc \in {"pull", "encode", "commit", "validate", "done"}}

\* C3: at every point of a run with a writer, every window that finished its
\* encode -> index -> store sequence has all of its (id, text) pairs committed
\* in the Text Store, so only ids of the one in-flight window can be in the
\* index without a committed Text Store entry.
C3_PriorWindowsDurable ==
    (hasWriter /\ ~preexisting /\ result # "raised" /\ pc # "closed"
        /\ pc # "exit_raised") =>
        /\ \A j \in StoredCalls : \A k \in 1..Len(wrCalls[j].docs) :
              GetItem(disk, Str(wrCalls[j].start + k - 1)) = wrCalls[j].docs[k]
        /\ \A id \in IndexIds :
              HasKey(disk, id) \/ (pc = "store" /\ id \in Range(id_chunk))

\* the chunks whose text the accumulation buffer or the writer's batch holds
ResidentIds == Range(id_chunk) \cup {batch[k][1] : k \in 1..Len(batch)}

\* C4: at every point of a run at most encoding_chunk_size chunk texts are
\* resident, counting the accumulation buffer and the writer's pending batch.
C4_ResidentBound ==
    (result # "raised" /\ pc # "closed" /\ pc # "exit_raised") =>
        Cardinality(ResidentIds) <= encoding_chunk_size

\* C5: when the encoder or the index engine raises in window w, build_index
\* raises; encoder and index engine were each invoked at most once per
\* window; the index holds exactly what the windows before w committed; and
\* from then on nothing is pulled, encoded, committed or stored.
C5_FailureIsFatal ==
    /\ [](EncIdxFailed =>
            /\ pc \in {"failed", "closed"}
            /\ \A n \in 1..chunk_number :
                  /\ Cardinality({j \in 1..Len(encCalls) : encCalls[j].n = n}) <= 1
                  /\ Cardinality({j \in 1..Len(idxCalls) : idxCalls[j].n = n}) <= 1
            /\ \A j \in 1..Len(encCalls) : encCalls[j].n <= chunk_number
            /\ \A j \in 1..Len(idxCalls) : idxCalls[j].n <= chunk_number
            /\ total_processed = (chunk_number - 1) * encoding_chunk_size
            /\ Len(index) = total_processed
            /\ \A k \in 1..Len(index) : index[k] = <<Str(k - 1), Embed(src[k])>>)
    /\ [][EncIdxFailed =>
            /\ EncIdxFailed'
            /\ UNCHANGED <<pos, encCalls, idxCalls, wrCalls, index, disk, total_saved>>]_vars

C5_Witness ==
    /\ pc = "closed" /\ EncIdxFailed /\ err.kind = "index"
    /\ chunk_number = 2 /\ Len(index) > 0

C7_MismatchOnlyWarns ==
    [][(pc = "validate" /\ hasWriter) =>
          /\ pc' = "done" /\ result' = "returned" /\ err' = NoErr
          /\ warned' = (total_saved # total_processed)
          /\ UNCHANGED <<index, conn, disk, dbOpen, batch, total_saved,
                         total_processed>>]_vars

C7_Witness ==
    pc = "done" /\ hasWriter /\ warned /\ result = "returned" /\ Len(index) > 0

\* C8: upsert is idempotent per key: a write of an existing id replaces its
\* text and keeps the entry count, a write of a new id adds one entry, other
\* ids are untouched, and writing the same (id, text) again changes nothing.
C8_UpsertIdempotent ==
    [][/\ lastOp'.op = "add" /\ lastOp' # lastOp =>
            LET id == lastOp'.id
                text == lastOp'.text
            IN /\ GetItem(conn', id) = text
               /\ Count(conn') = Count(conn) + (IF HasKey(conn, id) THEN 0 ELSE 1)
               /\ \A o \in DbIds \ {id} : GetItem(conn', o) = GetItem(conn, o)
               /\ InsertOrReplace(conn', id, text) = conn'
       /\ lastOp'.op = "add_batch" /\ lastOp' # lastOp =>
            LET items == lastOp'.items
                n == lastOp'.n
                ids == {items[k][1] : k \in 1..n}
            IN /\ \A k \in 1..n : GetItem(conn', items[k][1]) = items[k][2]
               /\ Count(conn') =
                     Count(conn) + Cardinality({i \in ids : ~HasKey(conn, i)})
               /\ \A o \in DbIds \ ids : GetItem(conn', o) = GetItem(conn, o)
               /\ ExecuteMany(conn', items, n) = conn'
      ]_vars

C8_Witness ==
    /\ lastOp.op = "add" /\ HasKey(disk, lastOp.id)
    /\ GetItem(disk, lastOp.id) # lastOp.text
    /\ GetItem(conn, lastOp.id) = lastOp.text
    /\ Count(conn) = Count(disk)

\* C9: a batched upsert is atomic: once a commit followed an add_batch, a
\* reader sees either every entry of that batch or the table as it was at
\* those ids before the batch.
C9_BatchAtomic ==
    batchCommitted =>
        \/ \A k \in 1..Len(lastBatch) :
              GetItem(disk, lastBatch[k][1]) = lastBatch[k][2]
        \/ \A k \in 1..Len(lastBatch) :
              GetItem(disk, lastBatch[k][1]) = GetItem(preConn, lastBatch[k][1])

\* C10: on an open CollectionDB, get returns the text last written or the
\* default (None when omitted), db[id] raises KeyError exactly for absent
\* ids, `in` is true exactly for written ids, len counts the distinct ids
\* written and iteration yields each written id exactly once.
C10_MappingReads ==
    dbOpen =>
        /\ \A i \in DbIds :
              /\ Get(conn, i, PyNone) = written[i]
              /\ Get(conn, i, "default") =
                    (IF written[i] = PyNone THEN "default" ELSE written[i])
              /\ (GetItem(conn, i) = KeyError) <=> (written[i] = PyNone)
              /\ written[i] # PyNone => GetItem(conn, i) = written[i]
              /\ Contains(conn, i) <=> (written[i] # PyNone)
              /\ IterCount(conn, i) = (IF written[i] # PyNone THEN 1 ELSE 0)
        /\ Count(conn) = Cardinality({i \in DbIds : written[i] # PyNone})
        /\ StoreIds(conn) \subseteq DbIds

C10_Witness ==
    /\ dbOpen /\ lastOp.op = "add_batch" /\ lastOp.n = 2
    /\ \E i \in DbIds : written[i] = "b" /\ GetItem(disk, i) = "a"

\* C11: reopening the same file never resets the store. Every entry committed
\* before the close is read back with the same text after the reopen, the
\* reopen adds and removes nothing, and a write made afterwards leaves every
\* entry it does not name as it was, in the connection and on disk.
C11_ReopenKeepsCommitted ==
    [][ /\ lastOp'.op = "open" =>
             /\ disk' = disk
             /\ Count(conn') = Count(disk)
             /\ \A i \in DbIds : /\ Contains(conn', i) = Contains(disk, i)
                                 /\ GetItem(conn', i) = GetItem(disk, i)
                                 /\ IterCount(conn', i) = IterCount(disk, i)
        /\ lastOp'.op = "add" =>
             /\ disk' = disk
             /\ GetItem(conn', lastOp'.id) = lastOp'.text
             /\ \A i \in DbIds \ {lastOp'.id} :
                    GetItem(conn', i) = GetItem(conn, i)
        /\ lastOp'.op = "add_batch" =>
             /\ disk' = disk
             /\ \A i \in DbIds \ {lastOp'.items[k][1] : k \in 1..lastOp'.n} :
                    GetItem(conn', i) = GetItem(conn, i)
      ]_vars

\* a reopen of a file that holds committed entries
C11_Witness ==
    /\ lastOp.op = "open"
    /\ dbOpen
    /\ Count(conn) = MaxId + 1
    /\ \E i \in DbIds : GetItem(conn, i) = "b"

\* the file is n >= 1 non-empty, whitespace-trimmed, delimiter-free documents
\* joined by the delimiter
CleanJoined ==
    /\ Len(fileDocs) >= 1
    /\ \A k \in 1..Len(fileDocs) :
          /\ fileDocs[k] # <<>>
          /\ Strip(fileDocs[k]) = fileDocs[k]
          /\ ~Occurs(DELIMITER, fileDocs[k])

\* "\n\n--------": the delimiter without its two closing newlines
DelimiterHead == SubSeq(DELIMITER, 1, Len(DELIMITER) - 2)

\* C12 as stated: a file of n >= 1 non-empty, trimmed, delimiter-free documents
\* joined by the delimiter streams as exactly those documents, in file order
\* (the k-th yielded document, id k-1, is the k-th joined one), for every
\* read size, and no yielded document contains the delimiter.
C12_JoinedDocsRoundTrip ==
    (pc = "streamed" /\ CleanJoined) =>
        /\ yielded = fileDocs
        /\ \A k \in 1..Len(yielded) : ~Occurs(DELIMITER, yielded[k])

\* C12, amended: the same, for documents none of which ends with the
\* delimiter's head "\n\n--------"; while the file is being read the
\* documents yielded so far are the first ones joined.
C12_JoinedDocsRoundTripNoHead ==
    (CleanJoined /\ \A k \in 1..Len(fileDocs) : ~EndsWith(fileDocs[k], DelimiterHead)) =>
        /\ Len(yielded) <= Len(fileDocs)
        /\ yielded = SubSeq(fileDocs, 1, Len(yielded))
        /\ \A k \in 1..Len(yielded) : ~Occurs(DELIMITER, yielded[k])
        /\ pc = "streamed" => yielded = fileDocs

\* several documents, the last one beginning as the delimiter ends, read
\* three characters at a time, all yielded
C12_Witness ==
    /\ pc = "streamed"
    /\ CleanJoined
    /\ \A k \in 1..Len(fileDocs) : ~EndsWith(fileDocs[k], DelimiterHead)
    /\ Len(fileDocs) >= 2
    /\ fileDocs[Len(fileDocs)] = Dashes \o <<NL, NL, "b">>
    /\ chunk_size = 3
    /\ yielded = fileDocs

\* the files of the directory that are supported and whose extraction, trimmed,
\* is not empty
Contributing == {k \in 1..Len(dirFiles) : Supported(dirFiles[k]) /\ Extracted(dirFiles[k]) # <<>>}

\* the run scanned the directory to its end and has streamed the artifact
FullScanStreamed ==
    pc = "streamed" /\ run = 1 /\ scans = 1 /\ scanIdx = Len(dirFiles)

\* C13: the cleaned text of every file scanned is free of the delimiter, so
\* after a full scan each supported non-empty file has contributed exactly one
\* streamed document and no streamed document contains the delimiter.
C13_NeutralizationComplete ==
    /\ \A k \in 1..scanIdx :
          Supported(dirFiles[k]) => ~Occurs(DELIMITER, Extracted(dirFiles[k]))
    /\ FullScanStreamed =>
          /\ Len(yielded) = Cardinality(Contributing)
          /\ \A k \in 1..Len(yielded) : ~Occurs(DELIMITER, yielded[k])

\* C14: when an artifact exists at the start of prepare_from_directory the
\* directory is not enumerated and the artifact is left as it is, whatever
\* the directory holds; the documents streamed are those the artifact was
\* joined from, and a second run, after a file was changed, removed or
\* added, streams the same sequence as the first.
C14_CacheTrusted ==
    /\ [](/\ scans <= 1
          /\ cacheDocs # <<>> => scans = 0
          /\ (pc = "streamed" /\ cacheDocs # <<>>) => yielded = cacheDocs
          /\ (pc = "streamed" /\ run = 2) => yielded = firstYield)
    /\ [][(pc = "prepare" /\ cacheExists) =>
             /\ pc' = "prepared"
             /\ UNCHANGED <<cacheExists, cacheText, scans, scanIdx, doc_count>>]_vars

\* a second run after the one file the first run scanned was replaced by an
\* unsupported one
C14_Witness ==
    /\ pc = "streamed"
    /\ run = 2
    /\ scans = 1
    /\ Len(dirFiles) = 1
    /\ ~Supported(dirFiles[1])
    /\ yielded = <<<<"a">>>>
    /\ yielded = firstYield

\* C15: an existing artifact that cannot be read never makes the document
\* source fail: prepare_from_directory does not return a dataset over the
\* unreadable artifact (it has re-extracted the directory), and iterating
\* the documents does not raise.
C15_CorruptCacheFallsBack ==
    /\ ~(pc = "prepared" /\ cacheCorrupt)
    /\ pc # "iter_raised"

\* the texts of the supported files whose extraction does not fail and is
\* not blank, in scan order
SurvivingTexts ==
    LET ok == SelectSeq(dirFiles, LAMBDA p : /\ Supported(p)
                                             /\ ~p.raises
                                             /\ Extracted(p) # <<>>)
    IN [k \in 1..Len(ok) |-> Extracted(ok[k])]

\* C16: once a run has scanned the directory, every file was gone through:
\* a supported file whose extraction failed contributed nothing, and the
\* artifact (which is what gets streamed) holds the text of every other
\* supported non-empty file.
C16_ExtractionFailureIsolated ==
    (run = 1 /\ scans = 1 /\ pc \in {"prepared", "stream", "streamed"}) =>
        /\ scanIdx = Len(dirFiles)
        /\ doc_count = Len(SurvivingTexts)
        /\ cacheText = PyJoin(DELIMITER, SurvivingTexts)

RECURSIVE ProdSeq(_)
ProdSeq(xs) == IF xs = <<>> THEN 1 ELSE xs[1] * ProdSeq(Tail(xs))

\* the fractions ps add up to 1
SumsToOne(ps) ==
    LET d == ProdSeq([i \in 1..Len(ps) |-> ps[i][2]])
    IN  SumSeq([i \in 1..Len(ps) |-> ps[i][1] * (d \div ps[i][2])]) = d

\* C20: for every non-empty result set _results_to_topk returns one item per
\* hit, each with a probability; the probabilities are in the proportion of
\* exp(score), they add up to 1, and they are 1/n each when the scores are
\* all equal or when the exponentials add up to zero.
C20_SoftmaxDistribution ==
    (pc \in {"topk_returned", "topk_raised"} /\ results # <<>>) =>
        /\ pc = "topk_returned"
        /\ Len(topk) = Len(results)
        /\ SumsToOne([i \in 1..Len(topk) |-> topk[i].prob])
        /\ \A i, j \in 1..Len(topk) :
              topk[i].prob[1] * topk[j].prob[2] * ExpUnits(topk[j].score)
                = topk[j].prob[1] * topk[i].prob[2] * ExpUnits(topk[i].score)
        /\ ( \/ \A i \in 1..Len(topk) : topk[i].score = topk[1].score
             \/ \A i \in 1..Len(topk) : ExpUnits(topk[i].score) = 0 ) =>
              \A i \in 1..Len(topk) :
                  topk[i].prob[1] * Len(topk) = topk[i].prob[2]

\* every request so far was answered with a response and the distinct keys
\* requested fit into the cache
WithinCapacity == failures = 0 /\ Len(recency) <= maxsize

\* C17: over successful sequential requests within the cache capacity the
\* encoder and the index engine have each been invoked exactly once for every
\* distinct (query, k) requested: a request for a key already answered
\* invokes neither and returns the response given before; a request for a
\* key not yet answered (another query, or another k) invokes both.
C17_OncePerDistinctKey ==
    /\ [](WithinCapacity =>
            \A key \in Keys :
                /\ encN[key] = IF answered[key] # <<>> THEN 1 ELSE 0
                /\ idxN[key] = encN[key])
    /\ [][(WithinCapacity' /\ reqs' = reqs + 1) =>
             LET r == last'[1] IN
             IF answered[<<r.q, r.k>>] # <<>>
             THEN /\ ~r.encoded /\ ~r.indexed
                  /\ r.status = 200
                  /\ r.resp = answered[<<r.q, r.k>>]
                  /\ encN' = encN /\ idxN' = idxN
             ELSE /\ r.encoded /\ r.indexed
                  /\ encN'[<<r.q, r.k>>] = 1 /\ idxN'[<<r.q, r.k>>] = 1
          ]_vars

\* q1 asked with k = 1, then with k = 2, then with k = 1 again
C17_Witness ==
    /\ WithinCapacity
    /\ reqs = 3
    /\ recency = << <<"q1", 2>>, <<"q1", 1>> >>
    /\ ~last[1].encoded
    /\ encN[<<"q1", 1>>] = 1 /\ encN[<<"q1", 2>>] = 1

\* the keys the cache holds
CachedKeys(cache) == {<<cache[i].q, cache[i].k>> : i \in 1..Len(cache)}

\* the position of a key in the order of last service
ServedPos(key) == CHOOSE i \in 1..Len(recency) : recency[i] = key

\* C18: the cache never holds more than maxsize entries. A response stored
\* into a full cache drops exactly one entry, the one whose key was least
\* recently served (by a hit or by its insertion); every other entry stays,
\* with its response. A request for a key that is not cached, such as an
\* evicted one, invokes the encoder again.
C18_LruEviction ==
    /\ [](Len(qcache) <= maxsize /\ Cardinality(CachedKeys(qcache)) = Len(qcache))
    /\ [][reqs' = reqs + 1 =>
             LET r == last'[1] IN
             /\ (r.status = 200 /\ r.encoded /\ Len(qcache) = maxsize) =>
                   /\ r.evicted \in CachedKeys(qcache)
                   /\ \A key \in CachedKeys(qcache) :
                         ServedPos(r.evicted) <= ServedPos(key)
                   /\ CachedKeys(qcache') =
                         (CachedKeys(qcache) \ {r.evicted}) \cup {<<r.q, r.k>>}
                   /\ \A i \in 1..Len(qcache) :
                         <<qcache[i].q, qcache[i].k>> # r.evicted =>
                             \E j \in 1..Len(qcache') : qcache'[j] = qcache[i]
             /\ (r.status = 200 /\ r.encoded /\ Len(qcache) < maxsize) =>
                   /\ r.evicted = <<>>
                   /\ CachedKeys(qcache') = CachedKeys(qcache) \cup {<<r.q, r.k>>}
             /\ <<r.q, r.k>> \notin CachedKeys(qcache) => r.encoded
          ]_vars

\* the cache filled, its first entry hit, then a new key stored: the entry
\* dropped is the second one stored, and the first is still cached
C18_Witness ==
    /\ reqs = maxsize + 2
    /\ failures = 0
    /\ last[1].evicted = <<"q1", 2>>
    /\ <<"q1", 1>> \in CachedKeys(qcache)
    /\ encN[<<"q1", 1>>] = 1
    /\ Len(qcache) = maxsize

\* C19: a request whose encoder or index query fails is answered with status
\* 500 carrying the cause and no result list; the cache is exactly as it was
\* (nothing stored, nothing dropped). After it, a request for the same key
\* invokes the encoder again and a request for a cached key is still
\* answered from the cache.
C19_FailureNotCached ==
    [][reqs' = reqs + 1 =>
         LET r == last'[1] IN
         /\ r.status = 500 =>
               /\ r.resp = <<>>
               /\ r.detail \in {"encoder error", "index error"}
               /\ r.encoded
               /\ r.evicted = <<>>
               /\ qcache' = qcache
               /\ <<r.q, r.k>> \notin CachedKeys(qcache')
         /\ (last # <<>> /\ last[1].status = 500) =>
               /\ (r.q = last[1].q /\ r.k = last[1].k) => r.encoded
               /\ <<r.q, r.k>> \in CachedKeys(qcache) =>
                     /\ r.status = 200
                     /\ ~r.encoded /\ ~r.indexed
                     /\ r.resp = <<qcache[CachePos(qcache, r.q, r.k)].resp>>
      ]_vars

\* with a full cache a request for a new key failed, and the same request,
\* made again, ran the encoder a second time and was answered
C19_Witness ==
    /\ reqs = maxsize + 2
    /\ failures = 1
    /\ last[1].status = 200
    /\ last[1].q = "q2" /\ last[1].k = 2
    /\ last[1].evicted # <<>>
    /\ encN[<<"q2", 2>>] = 2
    /\ idxN[<<"q2", 2>>] = 1

\* the ids and scores of a result list, in list order
IdsAndScores(list) == [i \in 1..Len(list) |-> <<list[i].pid, list[i].score>>]

\* the permutations of 1..n, for every length of a result list
Reorderings ==
    [n \in 0..MaxHits |->
        {f \in [1..n -> 1..n] : \A i, j \in 1..n : f[i] = f[j] => i = j}]

\* C21: a returned list is in descending order of score, two results of equal
\* score are in ascending order of their ids compared as text, and every
\* permutation of the engine's hits gives the same order of ids and scores.
C21_DeterministicOrder ==
    pc = "topk_returned" =>
        /\ \A i, j \in 1..Len(topk) :
              i < j => \/ topk[i].score > topk[j].score
                       \/ /\ topk[i].score = topk[j].score
                          /\ ~StrLess(topk[j].pid, topk[i].pid)
        /\ \A f \in Reorderings[Len(results)] :
              IdsAndScores(ResultsToTopk([i \in 1..Len(results) |-> results[f[i]]],
                                         collection))
                = IdsAndScores(topk)

\* the engine returned 2 before 10 with equal scores and a better hit last;
\* the list has the better hit first, then "10", then "2"
C21_Witness ==
    /\ pc = "topk_returned"
    /\ results = << <<2, 0>>, <<10, 0>>, <<2, 1>> >>
    /\ IdsAndScores(topk) = << <<Str(2), 1>>, <<Str(10), 0>>, <<Str(2), 0>> >>

C23_FailedOnlyFromEncodeOrCommit ==
    [][/\ (pc # "failed" /\ pc' = "failed") => pc \in {"encode", "commit"}
       /\ pc \in {"failed", "done", "closed", "exit_raised"}
            => UNCHANGED <<encCalls, idxCalls, wrCalls>>]_vars

\* C24: for every source, one yielding no document included, a run that
\* returns has made at least one index add call, its last index add call
\* carries the last document pulled, and every document pulled was added.
C24_DoneOnlyAfterFinalCommit ==
    result = "returned" =>
        /\ OkCalls # {}
        /\ idxCalls # <<>> =>
              /\ idxCalls[Len(idxCalls)].ok
              /\ Str(pos - 1) \in Range(idxCalls[Len(idxCalls)].ids)
        /\ pos = Len(src)
        /\ IndexIds = IdSet(pos)

\* C25: the windows are encoded one after the other; a window is encoded,
\* then handed to the index engine in exactly one add call that carries the
\* ids of all its documents, then its texts are handed to the writer; no
\* document of the next window is pulled before that hand-off has returned;
\* every window but the last has exactly encoding_chunk_size documents and
\* the last has between 1 and encoding_chunk_size.
C25_WindowOrder ==
    /\ Len(idxCalls) <= Len(encCalls) /\ Len(encCalls) <= Len(idxCalls) + 1
    /\ Len(wrCalls) <= Len(idxCalls)
    /\ \A j \in 1..Len(encCalls) :
          /\ encCalls[j].n = j
          /\ Len(encCalls[j].docs) \in 1..encoding_chunk_size
          /\ j < Len(encCalls) =>
                /\ Len(encCalls[j].docs) = encoding_chunk_size
                /\ idxCalls[j].ok
                /\ hasWriter => Len(wrCalls) >= j
    /\ \A j \in 1..Len(idxCalls) :
          /\ idxCalls[j].n = j
          /\ Len(idxCalls[j].ids) = Len(encCalls[j].docs)
          /\ \A k \in 1..Len(idxCalls[j].ids) :
                idxCalls[j].ids[k] = Str((j - 1) * encoding_chunk_size + k - 1)
    /\ \A j \in 1..Len(wrCalls) :
          /\ hasWriter
          /\ idxCalls[j].ok
          /\ wrCalls[j].docs = encCalls[j].docs
    /\ pc \in {"encode", "commit"} =>
          /\ Len(encCalls) \in {chunk_number - 1, chunk_number}
          /\ pos = total_processed + Len(doc_chunk)
    /\ pc = "store" => pos = total_processed /\ Len(wrCalls) = chunk_number
    /\ pc = "pull" =>
          /\ Len(encCalls) = chunk_number /\ Len(idxCalls) = chunk_number
          /\ pos = total_processed + Len(doc_chunk)
          /\ Len(doc_chunk) < encoding_chunk_size
          /\ hasWriter =>
                /\ Len(wrCalls) = chunk_number
                /\ total_saved + Len(batch) = total_processed

\* a run with a writer over four documents in windows of three: a full
\* window and a last window of one, each encoded, added and handed off
C25_Witness ==
    /\ result = "returned" /\ hasWriter /\ encoding_chunk_size = 3
    /\ Len(encCalls) = 2 /\ Len(idxCalls) = 2 /\ Len(wrCalls) = 2
    /\ Len(encCalls[1].docs) = 3 /\ Len(encCalls[2].docs) = 1
    /\ wrCalls[2].docs = encCalls[2].docs

\* the characters read so far
ReadSoFar == SubSeq(fileText, 1, fpos)

\* C26: however the text is cut into buffers, the documents yielded so far
\* are the trimmed non-empty parts of the text read so far that a delimiter
\* ends, in order, and the rest of the text read is held back; at the end of
\* the input the documents yielded are the trimmed non-empty parts of
\* splitting the whole text on the delimiter, the trailing part among them
\* once and only if it is not blank.
C26_CutIndependent ==
    /\ pc = "stream" =>
          LET parts == PySplit(ReadSoFar, DELIMITER) IN
            /\ yielded = StrippedNonEmpty(SubSeq(parts, 1, Len(parts) - 1))
            /\ buffer = parts[Len(parts)]
    /\ pc = "streamed" =>
          /\ yielded = StrippedNonEmpty(PySplit(fileText, DELIMITER))
          /\ buffer = <<>>

\* a buffer ended inside the delimiter between "a" and "a": nothing is out
\* yet, the first document is held back with the delimiter's first half
C26_Witness ==
    /\ pc = "stream"
    /\ fileDocs = << <<"a">>, <<"a">> >>
    /\ fpos = 5
    /\ yielded = <<>>
    /\ buffer = <<"a", NL, NL, "-", "-">>

\* C27: after a first run over a directory with no artifact, with n files
\* that are supported, readable and not blank, the artifact holds n - 1
\* delimiters, document_count is n, and the documents streamed are the n
\* trimmed extracted texts, unchanged, in the order of the sorted files.
C27_FirstRunRoundTrip ==
    (pc = "streamed" /\ run = 1 /\ scans = 1) =>
        /\ doc_count = Len(SurvivingTexts)
        /\ SurvivingTexts # <<>> =>
              Len(PySplit(cacheText, DELIMITER)) - 1 = Len(SurvivingTexts) - 1
        /\ yielded = SurvivingTexts

\* C28: an artifact that exists is not deleted, truncated or rewritten by
\* any step other than the scan that is creating it: preparing again,
\* opening it, streaming it and iterating again leave its content as it is.
C28_ArtifactNeverRewritten ==
    [][(cacheExists /\ pc # "scan") =>
          UNCHANGED <<cacheExists, cacheText, cacheCorrupt>>]_vars

\* the artifact written by the scan of one file was iterated twice and is
\* still the text of that file
C28_Witness ==
    /\ pc = "streamed" /\ run = 1 /\ scans = 1
    /\ dirFiles = <<File(".txt", <<"a">>, FALSE)>>
    /\ firstYield = << <<"a">> >>
    /\ yielded = firstYield
    /\ cacheExists /\ cacheText = <<"a">>

\* the keys of the calls under way
InflightKeys(t) == IF inflight[t] = <<>> THEN <<>> ELSE <<inflight[t][1].q, inflight[t][1].k>>

\* C29: under any interleaving of overlapping requests the cache holds at
\* most one entry per (query, k), at most maxsize entries, and each entry
\* holds the response computed for its own key; and two requests for the
\* same key that overlap do not both invoke the encoder and the index
\* engine, nor is either invoked for a key whose entry is in the cache.
C29_ConcurrentCacheOnce ==
    /\ [](/\ Len(qcache) <= maxsize
          /\ \A i, j \in 1..Len(qcache) :
                (qcache[i].q = qcache[j].q /\ qcache[i].k = qcache[j].k) => i = j
          /\ \A i \in 1..Len(qcache) :
                /\ qcache[i].resp.query = qcache[i].q
                /\ Len(qcache[i].resp.topk) <= qcache[i].k
          /\ \A t, u \in Threads :
                (t # u /\ inflight[t] # <<>> /\ inflight[u] # <<>>)
                    => InflightKeys(t) # InflightKeys(u))
    /\ [][\A key \in Keys :
            (encN'[key] > encN[key] \/ idxN'[key] > idxN[key])
                => CachePos(qcache, key[1], key[2]) = 0]_vars

\* C30: for the same ordered hits the list returned (ids, ranks, scores,
\* probabilities, texts and order) is the same in whatever shape the hits
\* arrive: pairs, objects with id and score, or a table, nested in a
\* per-query list or not; it is the list returned for the nested pairs.
C30_ShapeIndependent ==
    pc = "topk_returned" =>
        topk = ResultsToTopk(Rows(Shaped(<<"pairs", TRUE>>, results)), collection)

\* C31: a run with a writer over a location that holds the Text Store of an
\* earlier, longer run ends, once the writer is finalized, with an index and
\* a Text Store that hold exactly the ids of the new run: no row of the
\* earlier run is left.
C31_NoEarlierGeneration ==
    (pc = "closed" /\ result = "returned" /\ hasWriter /\ preexisting) =>
        /\ IndexIds = IdSet(Len(src))
        /\ StoreIds(disk) = IdSet(Len(src))
        /\ \A r \in disk : r[2] # OldText

\* the documents the add_documents calls so far were given
RECURSIVE AddedUpTo(_)
AddedUpTo(j) == IF j = 0 THEN 0 ELSE AddedUpTo(j - 1) + Len(wrCalls[j].docs)

\* C32: in any sequence of add_documents and finalize calls with no storage
\* error, total_saved plus the pending entries equals the documents added so
\* far; when add_documents has returned, fewer than batch_size entries are
\* pending; when finalize has returned, nothing is pending and total_saved
\* equals the documents added and is the value returned; a finalize that
\* follows a finalize writes nothing and returns the same total.
C32_WriterCounts ==
    /\ [](pc = "writer" =>
            /\ total_saved + Len(batch) = AddedUpTo(Len(wrCalls))
            /\ lastOp.op = "add_documents" => Len(batch) < batch_size
            /\ lastOp.op = "finalize" =>
                  /\ batch = <<>>
                  /\ total_saved = AddedUpTo(Len(wrCalls))
                  /\ lastOp.n = total_saved)
    /\ [][(lastOp.op = "finalize" /\ lastOp'.op = "finalize") =>
            /\ disk' = disk /\ conn' = conn
            /\ lastOp'.items = <<>>
            /\ lastOp'.n = lastOp.n]_vars

\* one call added three documents to a writer with batch_size 2, a finalize
\* flushed the third and a further finalize found nothing pending
C32_Witness ==
    /\ pc = "writer" /\ batch_size = 2
    /\ Len(wrCalls) = 1 /\ Len(wrCalls[1].docs) = 3
    /\ lastOp.op = "finalize" /\ lastOp.items = <<>>
    /\ total_saved = 3 /\ Cardinality(disk) = 3

\* C33: in a run that started from an empty Text Store, at every point,
\* failed runs and the writer's exit on an exception included, every row
\* committed in the Text Store has its id in the index with the embedding of
\* the row's text.
C33_StoreWithinIndex ==
    ~preexisting =>
        \A r \in disk : \E k \in 1..Len(index) : index[k] = <<r[1], Embed(r[2])>>

\* a run that failed after a batch was committed, its writer closed by the
\* exit on the exception with entries still pending
C33_Witness ==
    /\ ~preexisting /\ hasWriter
    /\ pc = "closed" /\ result = "raised"
    /\ disk # {} /\ batch # <<>>

\* C34: an artifact that a later run finds and trusts holds the complete
\* output of one full scan: when a run starts over the artifact an earlier
\* scan wrote, that scan went through every file of the directory and the
\* artifact is the join of the texts of all its supported non-empty files.
C34_TrustedArtifactComplete ==
    [][(run = 1 /\ run' = 2 /\ scans = 1 /\ cacheExists) =>
          /\ scanIdx = Len(dirFiles)
          /\ cacheText = PyJoin(DELIMITER, SurvivingTexts)]_vars

\* C35: the count comparison has no false alarms: a run with a writer that
\* returned, every window it committed to the index handed to the writer,
\* has logged no mismatch warning, whatever the source length, the
\* accumulation size and the writer's batch size.
C35_NoFalseAlarm ==
    (hasWriter /\ result = "returned" /\ Len(wrCalls) = Len(idxCalls)
        /\ AddedUpTo(Len(wrCalls)) = total_processed) => ~warned

====
